---- MODULE Spec2Model ----
(***************************************************************************)
(* Model of the pattern-based edit engine of src/file_tools/edit_file.py:  *)
(* the text helpers, the exact and fuzzy matchers, the indentation         *)
(* preserver, apply_edits (one action per loop iteration) and edit_file    *)
(* (read, apply, diff, write, report).                                     *)
(*                                                                         *)
(* A text is a sequence of one-character strings; a list of lines is a     *)
(* sequence of texts.  Floats are modelled as exact fractions <<n, d>>.    *)
(***************************************************************************)
EXTENDS Integers, Sequences, FiniteSets, TLC

\* ------------------------------------------------------------------------
\* Python string primitives used by the source
\* ------------------------------------------------------------------------

\* a Python string literal as a text
Str(s) == [i \in 1..Len(s) |-> SubSeq(s, i, i)]

NL == "\n"
CR == "\r"
SP == " "
TAB == "\t"

\* the characters str.strip(), str.lstrip() and the regex class \s remove
Whitespace == {SP, TAB, NL, CR}

Min(S) == CHOOSE x \in S : \A y \in S : x <= y
Max(S) == CHOOSE x \in S : \A y \in S : x >= y

\* text[p:] for a 1-based position p
From(text, p) == SubSeq(text, p, Len(text))

\* s * n : a repeated string; empty when n <= 0
RECURSIVE str_repeat(_, _)
str_repeat(s, n) == IF n <= 0 THEN <<>> ELSE s \o str_repeat(s, n - 1)

\* text.startswith(pat)
str_startswith(text, pat) ==
    /\ Len(pat) <= Len(text)
    /\ SubSeq(text, 1, Len(pat)) = pat

\* a faulty variant of str_find: the rightmost occurrence (str.rfind)
str_rfind(text, pat) ==
    LET hits == {p \in 0..(Len(text) - Len(pat)) :
                    SubSeq(text, p + 1, p + Len(pat)) = pat}
    IN IF hits = {} THEN -1 ELSE Max(hits)

\* text.find(pat): 0-based index of the leftmost occurrence, -1 if none
RECURSIVE str_find_from(_, _, _)
str_find_from(text, pat, p) ==
    IF p + Len(pat) > Len(text) THEN -1
    ELSE IF SubSeq(text, p + 1, p + Len(pat)) = pat THEN p
    ELSE str_find_from(text, pat, p + 1)

str_find(text, pat) == str_find_from(text, pat, 0)

\* pat in text
str_in(pat, text) == str_find(text, pat) # -1

\* text.count("\n")
count_newlines(text) == Cardinality({i \in 1..Len(text) : text[i] = NL})

\* text.split("\n")
RECURSIVE split_lines(_)
split_lines(text) ==
    LET nls == {i \in 1..Len(text) : text[i] = NL}
    IN IF nls = {} THEN <<text>>
       ELSE <<SubSeq(text, 1, Min(nls) - 1)>> \o split_lines(From(text, Min(nls) + 1))

\* "\n".join(lines)
RECURSIVE join_lines(_)
join_lines(lines) ==
    IF Len(lines) = 0 THEN <<>>
    ELSE IF Len(lines) = 1 THEN lines[1]
    ELSE lines[1] \o <<NL>> \o join_lines(Tail(lines))

\* text.lstrip()
RECURSIVE lstrip(_)
lstrip(text) ==
    IF Len(text) > 0 /\ text[1] \in Whitespace THEN lstrip(Tail(text)) ELSE text

\* text.rstrip()
RECURSIVE rstrip(_)
rstrip(text) ==
    IF Len(text) > 0 /\ text[Len(text)] \in Whitespace
    THEN rstrip(SubSeq(text, 1, Len(text) - 1))
    ELSE text

\* text.strip()
strip(text) == rstrip(lstrip(text))

\* "not line.strip()"
is_blank(line) == strip(line) = <<>>

\* a // b of Python for b > 0 (floor division)
floordiv(a, b) == IF a >= 0 THEN a \div b ELSE -((-a + b - 1) \div b)

\* ------------------------------------------------------------------------
\* Normalizer
\* ------------------------------------------------------------------------

\* a faulty variant of normalize_line_endings: line endings left as they are
normalize_line_endings_off(text) == text

RECURSIVE replace_crlf(_)
replace_crlf(text) ==
    IF Len(text) = 0 THEN <<>>
    ELSE IF Len(text) >= 2 /\ text[1] = CR /\ text[2] = NL
         THEN <<NL>> \o replace_crlf(From(text, 3))
    ELSE <<text[1]>> \o replace_crlf(Tail(text))

normalize_line_endings(text) == replace_crlf(text)

\* re.sub(r"[ \t]+", " ", text)
RECURSIVE collapse_blanks(_)
collapse_blanks(text) ==
    IF Len(text) = 0 THEN <<>>
    ELSE IF text[1] \in {SP, TAB}
         THEN IF Len(text) >= 2 /\ text[2] \in {SP, TAB}
              THEN collapse_blanks(Tail(text))
              ELSE <<SP>> \o collapse_blanks(Tail(text))
    ELSE <<text[1]>> \o collapse_blanks(Tail(text))

normalize_whitespace(text) ==
    LET lines == split_lines(collapse_blanks(text))
    IN join_lines([k \in 1..Len(lines) |-> strip(lines[k])])

\* ------------------------------------------------------------------------
\* Indentation detection
\* ------------------------------------------------------------------------

\* length of the leading run of character c
RECURSIVE leading_run(_, _)
leading_run(line, c) ==
    IF Len(line) > 0 /\ line[1] = c THEN 1 + leading_run(Tail(line), c) ELSE 0

\* a faulty variant of get_line_indentation: no line is taken to be indented
no_line_indentation(line) == <<>>

\* re.match(r"^(\s*)", line).group(1)
get_line_indentation(line) == SubSeq(line, 1, Len(line) - Len(lstrip(line)))

\* number of list entries of xs equal to v
count_of(xs, v) == Cardinality({k \in 1..Len(xs) : xs[k] = v})

\* the run lengths a leading-run pattern ("^( +)[^ ]" or "^(\t+)[^\t]")
\* finds on the non-blank lines
RECURSIVE select_runs(_, _)
run_of(line, n) == IF ~is_blank(line) /\ n > 0 /\ n < Len(line) THEN <<n>> ELSE <<>>

select_runs(lines, c) ==
    IF Len(lines) = 0 THEN <<>>
    ELSE run_of(lines[1], leading_run(lines[1], c)) \o select_runs(Tail(lines), c)

\* max(set(spaces), key=spaces.count); of equally frequent run lengths the
\* smallest, the first a set of small integers yields
most_common(spaces) ==
    Min({v \in {spaces[k] : k \in 1..Len(spaces)} :
            \A w \in {spaces[k] : k \in 1..Len(spaces)} :
                count_of(spaces, v) >= count_of(spaces, w)})

indentation_of(spaces, tabs) ==
    IF Len(spaces) > Len(tabs)
    THEN <<str_repeat(<<SP>>, most_common(spaces)), most_common(spaces)>>
    ELSE IF Len(tabs) > 0 THEN <<(<<TAB>>), 1>>
    ELSE <<Str("    "), 4>>

\* returns <<unit, size>>
detect_indentation(text) ==
    indentation_of(select_runs(split_lines(text), SP), select_runs(split_lines(text), TAB))

\* ------------------------------------------------------------------------
\* Indentation preserver
\* ------------------------------------------------------------------------

BULLET == Str("- ")

has_bullets(lines) ==
    \E k \in 1..Len(lines) : str_startswith(lstrip(lines[k]), BULLET)

\* a faulty variant of is_markdown_bullets: new_text must have an indented
\* bullet as well
is_markdown_bullets_nested(old_text, new_text) ==
    /\ has_bullets(split_lines(old_text))
    /\ \E k \in 1..Len(split_lines(new_text)) :
          /\ str_startswith(lstrip(split_lines(new_text)[k]), BULLET)
          /\ get_line_indentation(split_lines(new_text)[k]) # <<>>

is_markdown_bullets(old_text, new_text) ==
    has_bullets(split_lines(old_text)) /\ has_bullets(split_lines(new_text))

\* one result line of the list-item strategy; k is the 1-based line number
markdown_line(old_lines, new_lines, base_indent, k) ==
    IF k = 1 THEN base_indent \o lstrip(new_lines[k])
    ELSE IF str_startswith(lstrip(new_lines[k]), BULLET)
         THEN base_indent \o new_lines[k]
    ELSE IF k <= Len(old_lines)
         THEN get_line_indentation(old_lines[k]) \o lstrip(new_lines[k])
    ELSE base_indent \o lstrip(new_lines[k])

\* a faulty variant of preserve_markdown_indentation: blank lines are left out
preserve_markdown_indentation_compact(old_lines, new_lines, base_indent) ==
    join_lines(SelectSeq([k \in 1..Len(new_lines) |->
                             markdown_line(old_lines, new_lines, base_indent, k)],
                         LAMBDA line : ~is_blank(line)))

preserve_markdown_indentation(old_lines, new_lines, base_indent) ==
    join_lines([k \in 1..Len(new_lines) |->
                   markdown_line(old_lines, new_lines, base_indent, k)])

\* width of the fixed indent step the structure analysis divides by
LevelWidth == 4

\* depth of a line whose indentation is indent_len wide
indent_level(indent_len, base_indent_len) ==
    IF base_indent_len > 0
    THEN floordiv(indent_len - base_indent_len, LevelWidth) + 1
    ELSE floordiv(indent_len, LevelWidth) + 1

\* a function from the (1-based) numbers of the non-blank lines to their depth
analyze_indentation_structure(text_lines) ==
    [k \in {j \in 1..Len(text_lines) : ~is_blank(text_lines[j])} |->
        indent_level(Len(get_line_indentation(text_lines[k])),
                     IF Len(text_lines) > 0
                     THEN Len(get_line_indentation(text_lines[1])) ELSE 0)]

\* the levels the default map covers: range(2, 10)
DefaultLevels == 2..9

\* indent_map built from the structure of old_text: depth -> indentation of
\* the last non-blank line at that depth; the default map when there is none
indent_map_of(old_lines, old_structure, unit) ==
    IF DOMAIN old_structure # {}
    THEN [l \in {old_structure[k] : k \in DOMAIN old_structure} |->
            get_line_indentation(
                old_lines[Max({k \in DOMAIN old_structure : old_structure[k] = l})])]
    ELSE [l \in {1} \cup DefaultLevels |->
            get_line_indentation(old_lines[1])
                \o str_repeat(unit[1], unit[2] * (l - 1))]

python_indent_map(old_text) ==
    indent_map_of(split_lines(old_text),
                  analyze_indentation_structure(split_lines(old_text)),
                  detect_indentation(old_text))

\* the indentation the block strategy gives a line of depth level
python_target_indent(indent_map, unit, level) ==
    IF level \in DOMAIN indent_map THEN indent_map[level]
    ELSE indent_map[Max(DOMAIN indent_map)]
             \o str_repeat(unit[1], unit[2] * (level - Max(DOMAIN indent_map)))

\* one result line of the block strategy; k is the 1-based line number
python_line(base_indent, indent_map, unit, new_lines, new_structure, k) ==
    IF is_blank(new_lines[k]) THEN <<>>
    ELSE IF k = 1 THEN base_indent \o lstrip(new_lines[1])
    ELSE python_target_indent(indent_map, unit, new_structure[k]) \o lstrip(new_lines[k])

python_lines(old_lines, new_lines, indent_map, unit, new_structure) ==
    [k \in 1..Len(new_lines) |->
        python_line(get_line_indentation(old_lines[1]), indent_map, unit,
                    new_lines, new_structure, k)]

preserve_python_indentation(old_text, new_text) ==
    join_lines(python_lines(split_lines(old_text), split_lines(new_text),
                            python_indent_map(old_text), detect_indentation(old_text),
                            analyze_indentation_structure(split_lines(new_text))))

python_patterns ==
    { Str("class "), Str("def "), Str("if "), Str("else:"), Str("elif "),
      Str("try:"), Str("except"), Str("for "), Str("while ") }

has_python_pattern(text) == \E pattern \in python_patterns : str_in(pattern, text)

\* the numbers of the earlier lines of new_lines indented as wide as width
same_width_lines(new_lines, k, width) ==
    {j \in 1..(k - 1) : Len(get_line_indentation(new_lines[j])) = width}

\* generic strategy, a line with no counterpart in old_text: the indentation
\* estimated from the previous line of new_text and the lines emitted so far
estimated_indent(base_indent, unit, new_lines, result_lines, k, curr_len, prev_len) ==
    IF is_blank(new_lines[k - 1]) THEN base_indent
    ELSE IF curr_len > prev_len
         THEN get_line_indentation(result_lines[k - 1]) \o str_repeat(unit[1], unit[2])
    ELSE IF curr_len < prev_len /\ same_width_lines(new_lines, k, curr_len) # {}
         THEN get_line_indentation(result_lines[Max(same_width_lines(new_lines, k, curr_len))])
    ELSE base_indent

\* one result line of the generic strategy; k is the 1-based line number
generic_line(old_lines, new_lines, unit, result_lines, k) ==
    IF is_blank(new_lines[k]) THEN <<>>
    ELSE IF k = 1 THEN get_line_indentation(old_lines[1]) \o lstrip(new_lines[k])
    ELSE IF k <= Len(old_lines) /\ ~is_blank(old_lines[k])
         THEN get_line_indentation(old_lines[k]) \o lstrip(new_lines[k])
    ELSE estimated_indent(get_line_indentation(old_lines[1]), unit, new_lines,
                          result_lines, k,
                          Len(get_line_indentation(new_lines[k])),
                          Len(get_line_indentation(new_lines[k - 1])))
             \o lstrip(new_lines[k])

\* the generic strategy: the first k result lines
RECURSIVE generic_lines(_, _, _, _)
generic_result(old_lines, new_lines, unit, result_lines, k) ==
    Append(result_lines, generic_line(old_lines, new_lines, unit, result_lines, k))

generic_lines(old_lines, new_lines, unit, k) ==
    IF k = 0 THEN <<>>
    ELSE generic_result(old_lines, new_lines, unit,
                        generic_lines(old_lines, new_lines, unit, k - 1), k)

preserve_generic_indentation(old_text, new_text) ==
    join_lines(generic_lines(split_lines(old_text), split_lines(new_text),
                             detect_indentation(old_text),
                             Len(split_lines(new_text))))

\* a faulty variant of preserve_indentation: the replacement is left as written
preserve_indentation_off(old_text, new_text) == new_text

preserve_indentation(old_text, new_text) ==
    IF is_markdown_bullets(old_text, new_text)
    THEN preserve_markdown_indentation(split_lines(old_text), split_lines(new_text),
                                       get_line_indentation(split_lines(old_text)[1]))
    ELSE IF has_python_pattern(old_text) /\ has_python_pattern(new_text)
    THEN preserve_python_indentation(old_text, new_text)
    ELSE preserve_generic_indentation(old_text, new_text)

\* ------------------------------------------------------------------------
\* Floats, as exact fractions <<numerator, denominator>> with denominator > 0
\* ------------------------------------------------------------------------

Zero == <<0, 1>>
One == <<1, 1>>

FEq(x, y) == x[1] * y[2] = y[1] * x[2]
FLt(x, y) == x[1] * y[2] < y[1] * x[2]
FLe(x, y) == x[1] * y[2] <= y[1] * x[2]
FAdd(x, y) == <<x[1] * y[2] + y[1] * x[2], x[2] * y[2]>>

\* sum(xs) / len(xs) for a non-empty list of fractions
RECURSIVE FSum(_)
FSum(xs) == IF Len(xs) = 0 THEN Zero ELSE FAdd(xs[1], FSum(Tail(xs)))

FAvg(xs) == <<FSum(xs)[1], FSum(xs)[2] * Len(xs)>>

\* ------------------------------------------------------------------------
\* difflib.SequenceMatcher(None, a, b).ratio(), for sequences too short for
\* the automatic junk heuristic (fewer than 200 elements)
\* ------------------------------------------------------------------------

\* length of the common run of a[i:] and b[j:] inside a[:ahi], b[:bhi] (0-based)
RECURSIVE common_run(_, _, _, _, _, _)
common_run(a, i, ahi, b, j, bhi) ==
    IF i < ahi /\ j < bhi /\ a[i + 1] = b[j + 1]
    THEN 1 + common_run(a, i + 1, ahi, b, j + 1, bhi)
    ELSE 0

\* <<i, j, k>>: the longest block a[i:i+k] = b[j:j+k] within a[alo:ahi] and
\* b[blo:bhi]; of the longest ones the one earliest in a, then earliest in b
find_longest_match(a, alo, ahi, b, blo, bhi) ==
    LET starts == {ij \in (alo..(ahi - 1)) \X (blo..(bhi - 1)) :
                      a[ij[1] + 1] = b[ij[2] + 1]}
        size(ij) == common_run(a, ij[1], ahi, b, ij[2], bhi)
        longest == {ij \in starts : \A o \in starts : size(ij) >= size(o)}
        besti == Min({ij[1] : ij \in longest})
        bestj == Min({ij[2] : ij \in {o \in longest : o[1] = besti}})
    IN IF starts = {} THEN <<alo, blo, 0>>
       ELSE <<besti, bestj, size(<<besti, bestj>>)>>

\* get_matching_blocks() without the final sentinel, adjacent blocks not
\* merged: the longest block, then the blocks left and right of it
RECURSIVE matching_blocks(_, _, _, _, _, _)
blocks_around(a, alo, ahi, b, blo, bhi, m) ==
    IF m[3] = 0 THEN <<>>
    ELSE (IF alo < m[1] /\ blo < m[2]
          THEN matching_blocks(a, alo, m[1], b, blo, m[2]) ELSE <<>>)
         \o <<m>>
         \o (IF m[1] + m[3] < ahi /\ m[2] + m[3] < bhi
             THEN matching_blocks(a, m[1] + m[3], ahi, b, m[2] + m[3], bhi)
             ELSE <<>>)

matching_blocks(a, alo, ahi, b, blo, bhi) ==
    blocks_around(a, alo, ahi, b, blo, bhi, find_longest_match(a, alo, ahi, b, blo, bhi))

\* the total size of the matching blocks
RECURSIVE matching_size(_)
matching_size(blocks) ==
    IF Len(blocks) = 0 THEN 0 ELSE blocks[1][3] + matching_size(Tail(blocks))

ratio(a, b) ==
    IF Len(a) + Len(b) = 0 THEN One
    ELSE <<2 * matching_size(matching_blocks(a, 0, Len(a), b, 0, Len(b))),
           Len(a) + Len(b)>>

\* ------------------------------------------------------------------------
\* Exact matcher
\* ------------------------------------------------------------------------

\* MatchResult(matched, confidence, line_index, line_count, details); raised
\* names the exception when the call raises instead of returning
MatchResult(matched, confidence, line_index, line_count, details) ==
    [matched |-> matched, confidence |-> confidence, line_index |-> line_index,
     line_count |-> line_count, details |-> details, raised |-> ""]

\* a faulty variant of find_exact_match: the line of the rightmost occurrence,
\* and the newlines of the pattern as its line count
find_exact_match_last(content, pattern) ==
    IF str_rfind(content, pattern) # -1
    THEN [matched |-> TRUE, confidence |-> <<1, 1>>,
          line_index |->
              Cardinality({n \in 1..str_rfind(content, pattern) : content[n] = Str("\n")[1]}),
          line_count |-> Cardinality({n \in 1..Len(pattern) : pattern[n] = Str("\n")[1]}),
          details |-> "Exact match found", raised |-> ""]
    ELSE [matched |-> FALSE, confidence |-> <<0, 1>>, line_index |-> -1,
          line_count |-> 0, details |-> "No exact match found", raised |-> ""]

\* content.find(pattern) and the line it falls on
find_exact_match(content, pattern) ==
    IF str_in(pattern, content)
    THEN MatchResult(TRUE, One,
                     count_newlines(SubSeq(content, 1, str_find(content, pattern))),
                     count_newlines(pattern) + 1,
                     "Exact match found")
    ELSE MatchResult(FALSE, Zero, -1, 0, "No exact match found")

\* ------------------------------------------------------------------------
\* Fuzzy matcher
\* ------------------------------------------------------------------------

\* confidence of the fast path: 0.81
FastPathConfidence == <<81, 100>>

\* the amount added to a confidence equal to the threshold: 0.01
Nudge == <<1, 100>>

\* the similarity of one normalized pattern line and the content line under
\* it, as a list: empty for a blank pattern line, which is not scored
line_confidence(content_line, pattern_line) ==
    IF is_blank(pattern_line) THEN <<>> ELSE <<ratio(content_line, pattern_line)>>

\* confidences of the window at 0-based position i, from pattern line j on
RECURSIVE line_confidences(_, _, _, _)
line_confidences(content_lines, pattern_lines, i, j) ==
    IF j > Len(pattern_lines) THEN <<>>
    ELSE line_confidence(normalize_whitespace(content_lines[i + j]),
                         normalize_whitespace(pattern_lines[j]))
         \o line_confidences(content_lines, pattern_lines, i, j + 1)

\* sum(confidences) / len(confidences); Zero when no pattern line is scored
\* (the window is then not considered)
average_confidence(confidences) ==
    IF Len(confidences) = 0 THEN Zero ELSE FAvg(confidences)

window_confidence(content_lines, pattern_lines, i) ==
    average_confidence(line_confidences(content_lines, pattern_lines, i, 1))

\* "if avg_confidence > best_confidence": the better of the best so far and
\* the window at position i
better_window(best, avg_confidence, i) ==
    IF FLt(best[1], avg_confidence) THEN <<avg_confidence, i>> ELSE best

\* <<best_confidence, best_index>> after the windows 0 .. i-1 were scanned
RECURSIVE scan_windows(_, _, _)
scan_windows(content_lines, pattern_lines, i) ==
    IF i <= 0 THEN <<Zero, -1>>
    ELSE better_window(scan_windows(content_lines, pattern_lines, i - 1),
                       window_confidence(content_lines, pattern_lines, i - 1), i - 1)

\* the first loop: "hit" at the first position i where the first pattern line
\* is contained in line i and the second equals line i+1; "IndexError" where
\* evaluating that test indexes past the end of pattern_lines; "none" otherwise
RECURSIVE fast_path(_, _, _)
\* a faulty variant of fast_path: the first loop never returns
fast_path_off(content_lines, pattern_lines, i) == <<"none", -1>>

fast_path(content_lines, pattern_lines, i) ==
    IF i >= Len(content_lines) - Len(pattern_lines) + 1 \/ i >= Len(content_lines)
    THEN <<"none", -1>>
    ELSE IF Len(pattern_lines) = 0 THEN <<"IndexError", i>>
    ELSE IF str_in(pattern_lines[1], content_lines[i + 1])
         THEN IF Len(pattern_lines) = 1 THEN <<"IndexError", i>>
              ELSE IF pattern_lines[2] = content_lines[i + 2] THEN <<"hit", i>>
              ELSE fast_path(content_lines, pattern_lines, i + 1)
    ELSE fast_path(content_lines, pattern_lines, i + 1)

\* a faulty variant of accepted: a best window equal to the threshold is rejected
accepted_strictly(best_confidence, threshold) == FLt(threshold, best_confidence)

\* "if best_confidence >= threshold"
accepted(best_confidence, threshold) == FLe(threshold, best_confidence)

\* the confidence reported for an accepted window
reported_confidence(best_confidence, threshold) ==
    IF FEq(best_confidence, threshold) THEN FAdd(threshold, Nudge) ELSE best_confidence

\* what find_fuzzy_match returns, from the outcome of its two loops
fuzzy_result(fast, best, line_count, threshold) ==
    IF fast[1] = "IndexError"
    THEN [MatchResult(FALSE, Zero, -1, 0, "list index out of range")
             EXCEPT !.raised = "IndexError"]
    ELSE IF fast[1] = "hit"
    THEN MatchResult(TRUE, FastPathConfidence, fast[2], line_count,
                     "Fuzzy match with partial line content")
    ELSE IF accepted(best[1], threshold)
    THEN MatchResult(TRUE, reported_confidence(best[1], threshold), best[2], line_count,
                     "Fuzzy match with confidence")
    ELSE MatchResult(FALSE, best[1], -1, 0,
                     "Best fuzzy match had confidence, below threshold")

find_fuzzy_match(content_lines, pattern_lines, threshold) ==
    fuzzy_result(fast_path(content_lines, pattern_lines, 0),
                 scan_windows(content_lines, pattern_lines,
                              Len(content_lines) - Len(pattern_lines) + 1),
                 Len(pattern_lines), threshold)

\* ------------------------------------------------------------------------
\* Diff generator
\* ------------------------------------------------------------------------

\* text.splitlines(True): split after "\n", "\r\n" and "\r", terminators kept
RECURSIVE splitlines_keepends(_)
splitlines_keepends(text) ==
    LET ends == {i \in 1..Len(text) : text[i] \in {NL, CR}}
        e == Min(ends)
        stop == IF text[e] = CR /\ e < Len(text) /\ text[e + 1] = NL THEN e + 1 ELSE e
    IN IF Len(text) = 0 THEN <<>>
       ELSE IF ends = {} THEN <<text>>
       ELSE <<SubSeq(text, 1, stop)>> \o splitlines_keepends(From(text, stop + 1))

\* a faulty variant of prefixed: every line is marked as added
prefixed_added(prefix, a, lo, hi) == [n \in 1..(hi - lo) |-> <<"+", a[lo + n]>>]

\* the lines a[lo+1 .. hi], each with the prefix of a diff line
prefixed(prefix, a, lo, hi) == [n \in 1..(hi - lo) |-> <<prefix, a[lo + n]>>]

\* the lines of one unified diff, as <<prefix, line>> pairs, for the blocks
\* from number k on; i and j are the positions reached in a and b
RECURSIVE diff_body(_, _, _, _, _, _)
diff_body(a, b, blocks, k, i, j) ==
    IF k > Len(blocks)
    THEN prefixed("-", a, i, Len(a)) \o prefixed("+", b, j, Len(b))
    ELSE prefixed("-", a, i, blocks[k][1]) \o prefixed("+", b, j, blocks[k][2])
         \o prefixed(" ", a, blocks[k][1], blocks[k][1] + blocks[k][3])
         \o diff_body(a, b, blocks, k + 1,
                      blocks[k][1] + blocks[k][3], blocks[k][2] + blocks[k][3])

\* number of lines of context difflib.unified_diff keeps (its default n)
ContextLines == 3

\* number of the hunk's lines with one of the prefixes
hunk_count(hunk, prefixes) == Cardinality({n \in 1..Len(hunk) : hunk[n][1] \in prefixes})

\* the hunk header, carrying the line counts of the two ranges, then the lines
with_hunk_header(hunk) ==
    << <<"@@", <<hunk_count(hunk, {" ", "-"}), hunk_count(hunk, {" ", "+"})>> >> >> \o hunk

\* the changed lines with at most ContextLines lines of context around them
trim_context(body, changed) ==
    SubSeq(body, Max({1, Min(changed) - ContextLines}),
                 Min({Len(body), Max(changed) + ContextLines}))

hunk_of(body) ==
    with_hunk_header(trim_context(body, {n \in 1..Len(body) : body[n][1] # " "}))

\* difflib.unified_diff(a, b, fromfile, tofile, lineterm=""): the two file
\* headers and one hunk; empty when a = b.  The texts modelled are too short
\* (interior runs of at most 2 * ContextLines equal lines) for several hunks
unified_diff(a, b, file_path) ==
    IF a = b THEN <<>>
    ELSE << <<"--- a/", file_path>>, <<"+++ b/", file_path>> >>
         \o hunk_of(diff_body(a, b, matching_blocks(a, 0, Len(a), b, 0, Len(b)), 1, 0, 0))

\* the diff as a list of <<prefix, text>> entries
create_unified_diff(original, modified, file_path) ==
    unified_diff(splitlines_keepends(original), splitlines_keepends(modified), file_path)

\* ------------------------------------------------------------------------
\* Python list slicing, as apply_edits uses it on content_lines
\* ------------------------------------------------------------------------

\* a slice bound clamped the way list[start:stop] clamps it
slice_bound(n, len) ==
    IF n < 0 THEN (IF n + len < 0 THEN 0 ELSE n + len)
    ELSE IF n > len THEN len ELSE n

\* lines[start:stop]
py_slice(lines, start, stop) ==
    LET lo == slice_bound(start, Len(lines))
        hi == slice_bound(stop, Len(lines))
    IN SubSeq(lines, lo + 1, hi)

\* lines[start:stop] = new_lines
py_slice_assign(lines, start, stop, new_lines) ==
    LET lo == slice_bound(start, Len(lines))
        hi == Max({lo, slice_bound(stop, Len(lines))})
    IN SubSeq(lines, 1, lo) \o new_lines \o SubSeq(lines, hi + 1, Len(lines))

\* ------------------------------------------------------------------------
\* Inputs of the model
\* ------------------------------------------------------------------------

\* largest number of edits in one batch
MaxEdits == 2

\* contents the file can have before the call
Documents ==
    { Str("a\nb\na"),
      Str("x\r\n  y"),
      Str("ab cd\nabc\n\nef") }

Edit(old_text, new_text) == [old_text |-> old_text, new_text |-> new_text]

\* the edit requests a batch is made of
EditPool ==
    { Edit(Str("a"), Str("b")),                 \* first of two occurrences
      Edit(Str("b"), Str("c")),
      Edit(Str("a"), Str("a")),                 \* old_text = new_text
      Edit(Str("zz"), Str("a")),                \* absent anchor
      Edit(Str("ab  cd\nabc"), Str("q")),       \* whitespace differs: fuzzy
      Edit(Str("ab\nabc"), Str("ab\r\n  r")),   \* first line contained: fast path
      Edit(Str("y"), Str("if y:\n    z")),      \* indented anchor
      Edit(Str("abc\n\nef"), Str("ef")) }       \* multi-line anchor

RECURSIVE Batches(_)
Batches(n) ==
    IF n = 0 THEN {<<>>}
    ELSE Batches(n - 1) \cup
         {Append(b, e) : b \in {x \in Batches(n - 1) : Len(x) = n - 1}, e \in EditPool}

\* thresholds a caller passes: the default 0.8 and 0.5
Thresholds == {<<4, 5>>, <<1, 2>>}

EditOptions(preserve, normalize, partial, threshold) ==
    [preserve_indentation |-> preserve, normalize_whitespace |-> normalize,
     partial_match |-> partial, match_threshold |-> threshold]

FilePath == "file.txt"

\* open(file_path, "r").read(): text mode with universal newlines, every
\* "\r\n" and every remaining "\r" of the file is read as "\n"
RECURSIVE read_text(_)
read_text(data) ==
    IF Len(data) = 0 THEN <<>>
    ELSE IF Len(data) >= 2 /\ data[1] = CR /\ data[2] = NL
         THEN <<NL>> \o read_text(From(data, 3))
    ELSE IF data[1] = CR THEN <<NL>> \o read_text(Tail(data))
    ELSE <<data[1]>> \o read_text(Tail(data))

\* os.linesep of the platform the server runs on (POSIX)
linesep == <<NL>>

\* open(file_path, "w").write(text): text mode, every "\n" is written as
\* os.linesep
RECURSIVE write_text(_)
write_text(text) ==
    IF Len(text) = 0 THEN <<>>
    ELSE IF text[1] = NL THEN linesep \o write_text(Tail(text))
    ELSE <<text[1]>> \o write_text(Tail(text))

\* ------------------------------------------------------------------------
\* State
\* ------------------------------------------------------------------------

VARIABLES
    disk,                \* content of the file at FilePath
    file_before,         \* content of the file when edit_file was called (observer)
    pc,                  \* "idle", "loop", "raised", "done"
    edits,               \* the batch, normalised to EditOperation objects
    options,             \* edit_options
    dry_run,
    original_content,    \* what edit_file read from the file
    normalized_content,  \* apply_edits: the working document
    content_lines,       \* apply_edits: the working document as lines
    line_offset,         \* apply_edits: running line offset
    match_results,       \* apply_edits: its local record list
    edit_index,          \* apply_edits: index of the edit the loop is at
    exception,           \* pieces of the message of the exception in flight
    result,              \* the report edit_file returned
    history,             \* one entry per loop iteration entered (observer)
    args,                \* the call under way outside apply_edits: function and arguments
    returned,            \* what that call returned or raised
    fs                   \* save_file: the target, its directory and the temporary file

vars == <<disk, file_before, pc, edits, options, dry_run, original_content, normalized_content,
          content_lines, line_offset, match_results, edit_index, exception, result, history,
          args, returned, fs>>

\* the variables of edit_file and apply_edits
edit_vars == <<disk, file_before, pc, edits, options, dry_run, original_content,
               normalized_content, content_lines, line_offset, match_results, edit_index,
               exception, result, history>>

NoArgs == [fn |-> "none"]
NotReturned == [done |-> FALSE]
NoFiles == [target |-> <<"absent">>]

NoResult == [returned |-> FALSE]

Init ==
    /\ disk \in Documents
    /\ file_before = disk
    /\ pc = "idle"
    /\ edits = <<>>
    /\ options = EditOptions(TRUE, TRUE, TRUE, <<4, 5>>)
    /\ dry_run = FALSE
    /\ original_content = <<>>
    /\ normalized_content = <<>>
    /\ content_lines = <<>>
    /\ line_offset = 0
    /\ match_results = <<>>
    /\ edit_index = 0
    /\ exception = <<>>
    /\ result = NoResult
    /\ history = <<>>
    /\ args = NoArgs
    /\ returned = NotReturned
    /\ fs = NoFiles

\* no call of edit_file under way and no file: the state the other entry
\* points of the module start from
NoEditCall ==
    /\ disk = <<>>
    /\ file_before = <<>>
    /\ pc = "idle"
    /\ edits = <<>>
    /\ options = EditOptions(TRUE, TRUE, TRUE, <<4, 5>>)
    /\ dry_run = FALSE
    /\ original_content = <<>>
    /\ normalized_content = <<>>
    /\ content_lines = <<>>
    /\ line_offset = 0
    /\ match_results = <<>>
    /\ edit_index = 0
    /\ exception = <<>>
    /\ result = NoResult
    /\ history = <<>>

\* ------------------------------------------------------------------------
\* apply_edits, one action per outcome of a loop iteration
\* ------------------------------------------------------------------------

normalized_old == normalize_line_endings(edits[edit_index + 1].old_text)
normalized_new == normalize_line_endings(edits[edit_index + 1].new_text)
exact_match == find_exact_match(normalized_content, normalized_old)
fuzzy_match ==
    find_fuzzy_match(content_lines, split_lines(normalized_old), options.match_threshold)

\* a faulty variant of use_fuzzy: the fuzzy matcher runs whatever partial_match says
use_fuzzy_always(exact, opts) == ~exact.matched

\* "elif options.partial_match": the fuzzy matcher is tried
use_fuzzy(exact, opts) == ~exact.matched /\ opts.partial_match

\* a faulty variant of replacement_text: the whitespace normalization of the
\* comparison is applied to the inserted text as well
replacement_text_normalized(opts, matched_text, new_text) ==
    IF opts.preserve_indentation
    THEN preserve_indentation(matched_text, new_text)
    ELSE normalize_whitespace(new_text)

\* a faulty variant of replacement_text: preserve_indentation ignored
replacement_text_plain(opts, matched_text, new_text) == new_text

\* the text spliced in for new_text
replacement_text(opts, matched_text, new_text) ==
    IF opts.preserve_indentation
    THEN preserve_indentation(matched_text, new_text)
    ELSE new_text

\* a faulty variant of splice: every occurrence up to the found one is dropped
splice_from_start(content, start_pos, end_pos, new_text) ==
    new_text \o From(content, end_pos + 1)

\* content[:start_pos] + new_text + content[end_pos:]
splice(content, start_pos, end_pos, new_text) ==
    SubSeq(content, 1, start_pos) \o new_text \o From(content, end_pos + 1)

\* what the observer notes of an iteration
Step(kind, fuzzy_consulted, fuzzy, after) ==
    [edit_index |-> edit_index, kind |-> kind, before |-> normalized_content,
     old |-> normalized_old, new |-> normalized_new, exact |-> exact_match,
     fuzzy_consulted |-> fuzzy_consulted, fuzzy |-> fuzzy, after |-> after]

NotConsulted == MatchResult(FALSE, Zero, -1, 0, "")

InLoop == pc = "loop" /\ edit_index < Len(edits)

Call ==
    /\ pc = "idle"
    /\ \E batch \in Batches(MaxEdits) \ {<<>>}, preserve \in BOOLEAN, normalize \in BOOLEAN,
          partial \in BOOLEAN, threshold \in Thresholds, dry \in BOOLEAN :
          /\ edits' = batch
          /\ options' = EditOptions(preserve, normalize, partial, threshold)
          /\ dry_run' = dry
    /\ original_content' = read_text(disk)
    /\ normalized_content' = normalize_line_endings(read_text(disk))
    /\ content_lines' = split_lines(normalize_line_endings(read_text(disk)))
    /\ file_before' = disk
    /\ match_results' = <<>>
    /\ line_offset' = 0
    /\ edit_index' = 0
    /\ pc' = "loop"
    /\ UNCHANGED <<disk, exception, result, history>>
    /\ UNCHANGED <<args, returned, fs>>

ApplyExact ==
    /\ InLoop
    /\ exact_match.matched
    /\ LET start_pos == str_find(normalized_content, normalized_old)
           end_pos == start_pos + Len(normalized_old)
           new_text == replacement_text(options, normalized_old, normalized_new)
           after == splice(normalized_content, start_pos, end_pos, new_text)
       IN /\ normalized_content' = after
          /\ content_lines' = split_lines(after)
          /\ match_results' = Append(match_results,
                 [edit_index |-> edit_index, match_type |-> "exact", confidence |-> One,
                  line_index |-> exact_match.line_index,
                  line_count |-> exact_match.line_count])
          /\ history' = Append(history, Step("exact", FALSE, NotConsulted, after))
    /\ edit_index' = edit_index + 1
    /\ UNCHANGED <<disk, file_before, pc, edits, options, dry_run, original_content, line_offset,
                   exception, result>>
    /\ UNCHANGED <<args, returned, fs>>

ApplyFuzzy ==
    /\ InLoop
    /\ use_fuzzy(exact_match, options)
    /\ fuzzy_match.raised = ""
    /\ fuzzy_match.matched
    /\ LET line_index == fuzzy_match.line_index + line_offset
           line_count == fuzzy_match.line_count
           matched_content ==
               join_lines(py_slice(content_lines, line_index, line_index + line_count))
           new_text == replacement_text(options, matched_content, normalized_new)
           new_lines == py_slice_assign(content_lines, line_index,
                                        line_index + line_count, split_lines(new_text))
       IN /\ content_lines' = new_lines
          /\ normalized_content' = join_lines(new_lines)
          /\ line_offset' = line_offset + (count_newlines(new_text) + 1 - line_count)
          /\ match_results' = Append(match_results,
                 [edit_index |-> edit_index, match_type |-> "fuzzy",
                  confidence |-> fuzzy_match.confidence,
                  line_index |-> line_index, line_count |-> line_count])
          /\ history' = Append(history,
                 Step("fuzzy", TRUE, fuzzy_match, join_lines(new_lines)))
    /\ edit_index' = edit_index + 1
    /\ UNCHANGED <<disk, file_before, pc, edits, options, dry_run, original_content, exception, result>>
    /\ UNCHANGED <<args, returned, fs>>

\* the fuzzy matcher found nothing (or raised): apply_edits raises
FailFuzzy ==
    /\ InLoop
    /\ use_fuzzy(exact_match, options)
    /\ fuzzy_match.raised # "" \/ ~fuzzy_match.matched
    /\ IF fuzzy_match.raised # ""
       THEN /\ exception' = <<fuzzy_match.details>>
            /\ UNCHANGED match_results
       ELSE /\ exception' = <<"Could not find match for edit ", ToString(edit_index), ": ",
                              fuzzy_match.details>>
            /\ match_results' = Append(match_results,
                   [edit_index |-> edit_index, match_type |-> "failed",
                    confidence |-> fuzzy_match.confidence,
                    details |-> fuzzy_match.details])
    /\ history' = Append(history, Step("failed", TRUE, fuzzy_match, normalized_content))
    /\ pc' = "raised"
    /\ UNCHANGED <<disk, file_before, edits, options, dry_run, original_content, normalized_content,
                   content_lines, line_offset, edit_index, result>>
    /\ UNCHANGED <<args, returned, fs>>

\* no exact match and partial matching is off: apply_edits raises
FailDisabled ==
    /\ InLoop
    /\ ~exact_match.matched
    /\ ~use_fuzzy(exact_match, options)
    /\ match_results' = Append(match_results,
           [edit_index |-> edit_index, match_type |-> "failed", confidence |-> Zero,
            details |-> "No exact match found and partial matching is disabled"])
    /\ exception' = <<"Could not find exact match for edit ", ToString(edit_index),
                      " and partial matching is disabled">>
    /\ history' = Append(history, Step("failed", FALSE, NotConsulted, normalized_content))
    /\ pc' = "raised"
    /\ UNCHANGED <<disk, file_before, edits, options, dry_run, original_content, normalized_content,
                   content_lines, line_offset, edit_index, result>>
    /\ UNCHANGED <<args, returned, fs>>

\* ------------------------------------------------------------------------
\* edit_file, after apply_edits returned or raised
\* ------------------------------------------------------------------------

\* the message pieces that contain the word "confidence" / "below threshold"
MentionsConfidence ==
    {"Best fuzzy match had confidence, below threshold", "Fuzzy match with confidence"}
MentionsBelowThreshold == {"Best fuzzy match had confidence, below threshold"}

mentions(message, pieces) == \E k \in 1..Len(message) : message[k] \in pieces

\* a faulty variant of file_after_success: the file is written in a dry run too
file_after_success_always(dry, modified_content, current) == modified_content

\* the file once edit_file is through its "if not dry_run" block
file_after_success(dry, modified_content, current) ==
    IF ~dry THEN write_text(modified_content) ELSE current

\* a faulty variant of file_after_failure: the partial document is persisted
file_after_failure_partial(partial_content, current) == partial_content

\* the file once edit_file has handled an exception of apply_edits
file_after_failure(partial_content, current) == current

\* a faulty variant of error_message: the message is dropped
error_message_empty(message) == <<>>

\* error_msg of the except block
error_message(message) ==
    IF mentions(message, MentionsConfidence) /\ mentions(message, MentionsBelowThreshold)
    THEN <<"confidence too low: ">> \o message
    ELSE message

\* apply_edits returned: diff, write unless dry_run, report success
ReturnSuccess ==
    /\ pc = "loop"
    /\ edit_index = Len(edits)
    /\ disk' = file_after_success(dry_run, normalized_content, disk)
    /\ result' = [returned |-> TRUE, success |-> TRUE,
                  diff |-> create_unified_diff(original_content, normalized_content,
                                               FilePath),
                  match_results |-> match_results,
                  dry_run |-> dry_run, file_path |-> FilePath]
    /\ pc' = "done"
    /\ UNCHANGED <<file_before, edits, options, dry_run, original_content, normalized_content,
                   content_lines, line_offset, match_results, edit_index, exception, history>>
    /\ UNCHANGED <<args, returned, fs>>

\* apply_edits raised: edit_file's own match_results is still the empty list
\* it was initialised to, and that is what the report carries
ReturnError ==
    /\ pc = "raised"
    /\ disk' = file_after_failure(normalized_content, disk)
    /\ result' = [returned |-> TRUE, success |-> FALSE,
                  error |-> error_message(exception),
                  match_results |-> <<>>, file_path |-> FilePath]
    /\ pc' = "done"
    /\ UNCHANGED <<file_before, edits, options, dry_run, original_content, normalized_content,
                   content_lines, line_offset, match_results, edit_index, exception, history>>
    /\ UNCHANGED <<args, returned, fs>>

\* ------------------------------------------------------------------------
\* The server's edit_file tool
\* ------------------------------------------------------------------------

\* the absolute path of the file
AbsFilePath == Str("/project/file.txt")

\* Path.is_absolute() on POSIX
is_absolute(path) == Len(path) > 0 /\ path[1] = "/"

\* the check edit_file makes of its file_path argument: the message of the
\* ValueError it raises, "" when the argument passes
file_path_error(type_name, file_path) ==
    IF file_path = <<>> \/ type_name # "str"
    THEN "File path must be a non-empty string, got " \o type_name
    ELSE ""

\* the message of the ValueError the tool raises: from _validate_abs_path, from
\* its check of edits, or from the edit_file it calls with a Path object
tool_error(abs_file_path, batch) ==
    IF abs_file_path = <<>> THEN "Path must be a non-empty string, got str"
    ELSE IF ~is_absolute(abs_file_path) THEN "Path must be absolute"
    ELSE IF batch = <<>> THEN "Edits must be a non-empty list"
    ELSE file_path_error("pathlib.PosixPath", abs_file_path)

\* server.edit_file, the whole handler: every call ends in an exception,
\* re-raised by the handler's except block; the file is not opened
ToolEditFile ==
    /\ pc = "idle"
    /\ \E abs_file_path \in {<<>>, Str("file.txt"), AbsFilePath},
          batch \in Batches(MaxEdits), dry \in BOOLEAN :
          /\ args' = [fn |-> "server.edit_file", abs_file_path |-> abs_file_path,
                      edits |-> batch, dry_run |-> dry]
          /\ returned' = [done |-> TRUE, raised |-> "ValueError",
                          message |-> tool_error(abs_file_path, batch)]
    /\ pc' = "tool_done"
    /\ UNCHANGED <<disk, file_before, edits, options, dry_run, original_content,
                   normalized_content, content_lines, line_offset, match_results,
                   edit_index, exception, result, history, fs>>

Next ==
    \/ Call
    \/ ApplyExact
    \/ ApplyFuzzy
    \/ FailFuzzy
    \/ FailDisabled
    \/ ReturnSuccess
    \/ ReturnError
    \/ ToolEditFile

Spec == Init /\ [][Next]_vars

\* ------------------------------------------------------------------------
\* Vocabulary of the properties
\* ------------------------------------------------------------------------

\* the 0-based positions at which pat occurs in text
Occurrences(text, pat) ==
    {p \in 0..(Len(text) - Len(pat)) : SubSeq(text, p + 1, p + Len(pat)) = pat}

Occurs(text, pat) == Occurrences(text, pat) # {}

FirstOccurrence(text, pat) == Min(Occurrences(text, pat))

NewlinesBefore(text, p) == Cardinality({n \in 1..p : text[n] = NL})

\* text with the span [p, p + len) replaced by r
Replaced(text, p, len, r) ==
    SubSeq(text, 1, p) \o r \o SubSeq(text, p + len + 1, Len(text))

Steps == 1..Len(history)

\* apply_edits is over: it returned or it raised
Finished == pc \in {"raised", "done"} \/ (pc = "loop" /\ edit_index = Len(edits))

\* the iteration found no exact occurrence and no acceptable fuzzy window
FailedStep(h) ==
    /\ ~Occurs(h.before, h.old)
    /\ ~options.partial_match \/ ~h.fuzzy.matched

\* ------------------------------------------------------------------------
\* C1  When an edit's old_text cannot be found and partial_match is false,
\*     edit_file returns success=false and its match_results holds the
\*     records collected so far, the last one being the failing edit's record
\*     of type 'failed' with non-empty details.
\*     (Violated: the report carries the empty list.)
\* ------------------------------------------------------------------------
C1_FailedRecordInReport ==
    (/\ pc = "done"
     /\ ~options.partial_match
     /\ Len(history) > 0
     /\ ~Occurs(history[Len(history)].before, history[Len(history)].old))
    => /\ result.success = FALSE
       /\ Len(result.match_results) = Len(history)
       /\ result.match_results[Len(history)].match_type = "failed"
       /\ result.match_results[Len(history)].details # ""

\* ------------------------------------------------------------------------
\* C2  A failed match never escapes edit_file as an exception: whenever some
\*     edit matches neither exactly nor fuzzily, the loop stops at that edit
\*     (no later edit is attempted, the document is not touched any more) and
\*     the call ends with a report of success=false whose error string is not
\*     empty.
\* ------------------------------------------------------------------------
NonEmptyMessage(message) == \E n \in 1..Len(message) : message[n] # ""

C2_FailedMatchIsReported ==
    \A k \in Steps :
        FailedStep(history[k]) =>
            /\ k = Len(history)
            /\ edit_index = k - 1
            /\ normalized_content = history[k].before
            /\ pc \in {"raised", "done"}
            /\ pc = "raised" => NonEmptyMessage(exception)
            /\ pc = "done" =>
                  /\ result.returned
                  /\ result.success = FALSE
                  /\ NonEmptyMessage(result.error)

\* a batch failed below the threshold at an edit that is not its last one
C2_Witness ==
    /\ pc = "done"
    /\ Len(history) < Len(edits)
    /\ FailedStep(history[Len(history)])
    /\ history[Len(history)].fuzzy_consulted
    /\ result.success = FALSE

\* ------------------------------------------------------------------------
\* C3  When an edit of the batch fails to match, the file on disk is what it
\*     was before the call, also when earlier edits were spliced in memory.
\* ------------------------------------------------------------------------
C3_FileUntouchedOnFailure ==
    (\/ pc \in {"loop", "raised"}
     \/ (pc = "done" /\ result.success = FALSE))
    => disk = file_before

\* the second edit failed after the first one changed the working document
C3_Witness ==
    /\ pc = "done"
    /\ result.success = FALSE
    /\ Len(history) = 2
    /\ history[1].after # history[1].before
    /\ normalized_content # original_content
    /\ disk = file_before

\* ------------------------------------------------------------------------
\* C4  With every edit matching: the report has success=true, the dry_run
\*     flag of the call, one record per edit and the diff between the file's
\*     content and the mutated document (empty exactly when they have the
\*     same lines); with dry_run=true the file is unchanged, with
\*     dry_run=false the file holds the mutated document.
\* ------------------------------------------------------------------------
C4_DryRunWritesNothing ==
    (pc = "done" /\ Len(history) = Len(edits)
        /\ \A k \in Steps : ~FailedStep(history[k]))
    => /\ result.success = TRUE
       /\ result.dry_run = dry_run
       /\ Len(result.match_results) = Len(edits)
       /\ result.diff = create_unified_diff(original_content, normalized_content, FilePath)
       /\ (result.diff = <<>>) <=>
              (splitlines_keepends(original_content)
                   = splitlines_keepends(normalized_content))
       /\ dry_run => disk = file_before
       /\ ~dry_run => disk = write_text(normalized_content)

\* a dry run whose edits would have changed the file
C4_Witness ==
    /\ pc = "done"
    /\ result.success = TRUE
    /\ dry_run
    /\ normalized_content # original_content
    /\ result.diff # <<>>
    /\ disk = file_before

\* ------------------------------------------------------------------------
\* C5  Multi-edit composition over distinct, non-overlapping anchors.
\* ------------------------------------------------------------------------

\* the document apply_edits starts from, and the anchor of the k-th edit
Doc0 == normalize_line_endings(original_content)
Anchor(k) == normalize_line_endings(edits[k].old_text)
AnchorPos(k) == FirstOccurrence(Doc0, Anchor(k))

\* the text put in place of the k-th anchor: its new text, re-indented after
\* the anchor when preserve_indentation is on
Emitted(k) ==
    replacement_text(options, Anchor(k), normalize_line_endings(edits[k].new_text))

\* every anchor is non-empty and occurs in the document; the anchors differ
\* and their (earliest) occurrences do not overlap
AnchorsDisjoint ==
    /\ \A k \in 1..Len(edits) : Anchor(k) # <<>> /\ Occurs(Doc0, Anchor(k))
    /\ \A j, k \in 1..Len(edits) :
          j < k => /\ Anchor(j) # Anchor(k)
                   /\ \/ AnchorPos(j) + Len(Anchor(j)) <= AnchorPos(k)
                      \/ AnchorPos(k) + Len(Anchor(k)) <= AnchorPos(j)

\* doc with the anchors of the edits in S replaced, the rightmost first
RECURSIVE AllReplaced(_, _)
AllReplaced(doc, S) ==
    IF S = {} THEN doc
    ELSE LET k == CHOOSE x \in S : \A y \in S : AnchorPos(y) <= AnchorPos(x)
         IN AllReplaced(Replaced(doc, AnchorPos(k), Len(Anchor(k)), Emitted(k)), S \ {k})

\* every edit was applied at its anchor, one record per edit in input order
AllApplied ==
    /\ pc # "raised"
    /\ pc = "done" => result.success = TRUE
    /\ Len(match_results) = Len(edits)
    /\ \A k \in 1..Len(edits) : match_results[k].edit_index = k - 1
    /\ normalized_content = AllReplaced(Doc0, 1..Len(edits))

\* C5 as claimed: for a batch of edits whose anchors are distinct and
\* non-overlapping in the document, apply_edits replaces each anchor by its new
\* text and returns one record per edit, in input order, the k-th record
\* carrying edit_index k.
\* (Violated: an earlier replacement can put a copy of a later anchor ahead of
\* that anchor, and the later edit then binds to the copy.)
C5_AnchorsAllReplaced == (Finished /\ AnchorsDisjoint) => AllApplied

\* how far the edits before the k-th one moved the k-th anchor
RECURSIVE ShiftBy(_, _)
ShiftBy(k, j) ==
    IF j = 0 THEN 0
    ELSE ShiftBy(k, j - 1)
         + (IF j < k /\ AnchorPos(j) < AnchorPos(k)
            THEN Len(Emitted(j)) - Len(Anchor(j)) ELSE 0)

\* when the k-th edit was reached, the earliest occurrence of its anchor in
\* the working document was the anchor's own occurrence
AtOriginalPlace(k) ==
    /\ Occurs(history[k].before, Anchor(k))
    /\ FirstOccurrence(history[k].before, Anchor(k)) = AnchorPos(k) + ShiftBy(k, k - 1)

\* C5 as amended: for a batch of edits whose anchors are distinct and
\* non-overlapping in the document, and where no earlier replacement has put
\* an occurrence of a later anchor ahead of that anchor (each edit, when it is
\* reached, finds its anchor's earliest occurrence at the anchor's own place),
\* apply_edits matches every edit exactly, replaces each anchor by its new text
\* and returns one record per edit, in input order, the k-th record carrying
\* edit_index k.
C5_AnchorsReplacedInPlace ==
    (Finished /\ AnchorsDisjoint /\ \A k \in Steps : AtOriginalPlace(k))
    => /\ AllApplied
       /\ \A k \in 1..Len(edits) : match_results[k].match_type = "exact"

\* two edits, the second anchored ahead of the first, both changing the text
C5_Witness ==
    /\ Finished
    /\ Len(edits) = 2
    /\ AnchorsDisjoint
    /\ \A k \in Steps : AtOriginalPlace(k)
    /\ AnchorPos(2) < AnchorPos(1)
    /\ \A k \in Steps : history[k].after # history[k].before
    /\ Len(history) = 2

\* ------------------------------------------------------------------------
\* C6  For every edit whose old_text equals its new_text after line-ending
\*     normalization, apply_edits leaves the document unchanged and appends a
\*     record of type 'skipped'.
\*     (Violated: there is no such case in apply_edits; the edit is matched
\*     like any other and recorded as 'exact', 'fuzzy' or 'failed'.)
\* ------------------------------------------------------------------------
C6_NoOpIsSkipped ==
    \A k \in Steps :
        history[k].old = history[k].new =>
            /\ history[k].after = history[k].before
            /\ Len(match_results) >= k
            /\ match_results[k].match_type = "skipped"

\* ------------------------------------------------------------------------
\* C7  For an edit whose old_text does not occur in the document while its
\*     new_text does, apply_edits changes nothing and appends a record of
\*     type 'skipped'.
\*     (Violated: the edit goes to the fuzzy matcher or fails the batch.)
\* ------------------------------------------------------------------------
C7_AlreadyAppliedIsSkipped ==
    \A k \in Steps :
        (~Occurs(history[k].before, history[k].old)
            /\ Occurs(history[k].before, history[k].new)) =>
            /\ history[k].after = history[k].before
            /\ Len(match_results) >= k
            /\ match_results[k].match_type = "skipped"

\* ------------------------------------------------------------------------
\* C8  find_exact_match: if the pattern occurs in the document the result is
\*     matched with confidence 1.0, line_index = the number of newlines
\*     before the leftmost occurrence and line_count = the number of newlines
\*     of the pattern + 1; otherwise it is unmatched with confidence 0.0 and
\*     line_index -1.
\* ------------------------------------------------------------------------
C8_ExactMatchResult ==
    \A k \in Steps :
        LET h == history[k]
        IN IF Occurs(h.before, h.old)
           THEN /\ h.exact.matched
                /\ FEq(h.exact.confidence, One)
                /\ h.exact.line_index
                       = NewlinesBefore(h.before, FirstOccurrence(h.before, h.old))
                /\ h.exact.line_count
                       = Cardinality({n \in 1..Len(h.old) : h.old[n] = NL}) + 1
           ELSE /\ ~h.exact.matched
                /\ FEq(h.exact.confidence, Zero)
                /\ h.exact.line_index = -1

\* a multi-line pattern found below the first line of the document
C8_Witness ==
    \E k \in Steps :
        /\ history[k].exact.matched
        /\ history[k].exact.line_index >= 1
        /\ history[k].exact.line_count >= 2

\* ------------------------------------------------------------------------
\* C9  An exact-matched edit replaces only the earliest occurrence of
\*     old_text: the document becomes the text before that occurrence, the
\*     replacement, and the text after the occurrence.
\* ------------------------------------------------------------------------
C9_OnlyFirstOccurrenceReplaced ==
    \A k \in Steps :
        LET h == history[k]
        IN h.kind = "exact" =>
              h.after = Replaced(h.before, FirstOccurrence(h.before, h.old), Len(h.old),
                                 replacement_text(options, h.old, h.new))

\* the anchor occurred twice and the edit changed the document
C9_Witness ==
    \E k \in Steps :
        /\ history[k].kind = "exact"
        /\ Cardinality(Occurrences(history[k].before, history[k].old)) >= 2
        /\ history[k].after # history[k].before
        /\ Occurs(history[k].after, history[k].old)

\* ------------------------------------------------------------------------
\* C10 The fuzzy matcher is consulted only for an edit without an exact
\*     occurrence and only when partial_match is true: an edit with an exact
\*     occurrence yields a record 'exact' with confidence 1.0, and with
\*     partial_match=false there is never a record 'fuzzy'.
\* ------------------------------------------------------------------------
C10_FuzzyOnlyAfterExactFails ==
    \A k \in Steps :
        LET h == history[k]
        IN /\ h.fuzzy_consulted => (~Occurs(h.before, h.old) /\ options.partial_match)
           /\ Occurs(h.before, h.old) =>
                 /\ Len(match_results) >= k
                 /\ match_results[k].match_type = "exact"
                 /\ FEq(match_results[k].confidence, One)
           /\ ~options.partial_match =>
                 \A n \in 1..Len(match_results) : match_results[n].match_type # "fuzzy"

\* partial_match is off and the edit fails although the fuzzy matcher would
\* have accepted a window
C10_Witness ==
    /\ pc = "raised"
    /\ ~options.partial_match
    /\ ~history[Len(history)].fuzzy_consulted
    /\ find_fuzzy_match(content_lines, split_lines(history[Len(history)].old),
                        options.match_threshold).matched

\* ------------------------------------------------------------------------
\* The functions of the module called on their own
\* ------------------------------------------------------------------------

\* longest line list a caller passes
MaxLines == 3

Lines(texts) == [k \in 1..Len(texts) |-> Str(texts[k])]

\* calls of find_fuzzy_match: content lines, pattern lines (one line
\* contained in a content line; first line contained and second equal; equal
\* up to whitespace; half similar; nothing to score) and thresholds in [0,1]
FuzzyCalls ==
    {[fn |-> "find_fuzzy_match", content_lines |-> c, pattern_lines |-> p, threshold |-> t] :
        c \in {x \in { Lines(<<"abc">>),
                       Lines(<<"xab", "abc">>),
                       Lines(<<"ab cd", "x">>),
                       Lines(<<"ab", "ac", "ab">>),
                       Lines(<<"xxxab", "abc", "ab">>),
                       Lines(<<"abcd", "", "abcx", "abcd">>) } : Len(x) <= MaxLines},
        p \in { Lines(<<"abc">>),
                Lines(<<"ab", "abc">>),
                Lines(<<"ab", "abc", "q">>),
                Lines(<<"ab  cd">>),
                Lines(<<"ad">>),
                Lines(<<"zz", "ab">>),
                Lines(<<"">>),
                Lines(<<"q", "", "abcd", "r">>) },
        t \in {Zero, <<1, 2>>, <<4, 5>>, <<9, 10>>, One}}

CallFindFuzzyMatch ==
    /\ args.fn = "find_fuzzy_match"
    /\ ~returned.done
    /\ returned' = [done |-> TRUE,
                    value |-> find_fuzzy_match(args.content_lines, args.pattern_lines,
                                               args.threshold)]
    /\ UNCHANGED <<args, fs>>
    /\ UNCHANGED edit_vars

\* calls of preserve_indentation: list items, block-structured code and
\* plain text, with blank, whitespace-only and over-indented lines
IndentCalls ==
    {[fn |-> "preserve_indentation", old_text |-> Str(o), new_text |-> Str(n)] :
        o \in { "  - a", "  - a\n    - b", "  if a:\n      b", "\tdef f():\n\t\tg",
                "  y", "y\n  w", "   ", "", "  - if a" },
        n \in { "- a\n\n- b", "\n- b", "  - c\n   t", "if c:\n    d\n\n        e",
                "  for x:\n \n  z", "z\n    w\n \n  v", "   \nq", "w",
                "- for x:\n  - z", "    if c:\nd\n    e" }}

CallPreserveIndentation ==
    /\ args.fn = "preserve_indentation"
    /\ ~returned.done
    /\ returned' = [done |-> TRUE, value |-> preserve_indentation(args.old_text, args.new_text)]
    /\ UNCHANGED <<args, fs>>
    /\ UNCHANGED edit_vars

\* longest text passed to normalize_line_endings
MaxChars == 3

\* calls of normalize_line_endings: every text of a letter, "\r" and "\n"
NormalizeCalls ==
    {[fn |-> "normalize_line_endings", text |-> t] :
        t \in UNION {[1..n -> {"a", CR, NL}] : n \in 0..MaxChars}}

CallNormalizeLineEndings ==
    /\ args.fn = "normalize_line_endings"
    /\ ~returned.done
    /\ returned' = [done |-> TRUE, value |-> normalize_line_endings(args.text)]
    /\ UNCHANGED <<args, fs>>
    /\ UNCHANGED edit_vars

\* calls of create_unified_diff: texts of up to three lines, with and
\* without a final newline, with "\n" and "\r\n"
DiffCalls ==
    {[fn |-> "create_unified_diff", original |-> Str(o), modified |-> Str(m),
      file_path |-> FilePath] :
        o, m \in { "", "a", "a\n", "a\nb", "a\nc", "b\na", "a\nb\nc", "a\r\nb",
                   "x\na\nb", "a\nb\n" }}

CallCreateUnifiedDiff ==
    /\ args.fn = "create_unified_diff"
    /\ ~returned.done
    /\ returned' = [done |-> TRUE,
                    value |-> create_unified_diff(args.original, args.modified,
                                                  args.file_path)]
    /\ UNCHANGED <<args, fs>>
    /\ UNCHANGED edit_vars

\* --- normalize_path (file_tools.py) ---
\* A path is pathlib's view of it: whether it is absolute, and its parts below
\* the root.  The file system has the project directory /project, the
\* directory /etc outside it and the symbolic link /project/link -> /etc.
MaxParts == 3

\* get_project_dir(): the parts of the project directory, an absolute path
project_dir == <<"project">>

\* the file system's symbolic links: the parts a path resolves to when it is
\* one, the path itself when it is not
readlink(parts) == IF parts = <<"project", "link">> THEN <<"etc">> ELSE parts

\* Path.resolve() of an absolute path: ".." steps up from the directory
\* reached so far, a symbolic link is followed when it is reached
RECURSIVE resolve_from(_, _, _)
resolve_from(done, parts, k) ==
    IF k > Len(parts) THEN done
    ELSE IF parts[k] = ".."
         THEN resolve_from(SubSeq(done, 1, Len(done) - 1), parts, k + 1)
         ELSE resolve_from(readlink(Append(done, parts[k])), parts, k + 1)

resolve(parts) == resolve_from(<<>>, parts, 1)

\* whether Path.relative_to(other) succeeds: a comparison of the parts as they
\* are written, ".." included
relative_to(parts, other) ==
    Len(other) <= Len(parts) /\ SubSeq(parts, 1, Len(other)) = other

\* os.path.commonpath of two absolute paths: their longest common leading parts
commonpath(p, q) ==
    LET same == {n \in 0..Len(p) : n <= Len(q) /\ SubSeq(p, 1, n) = SubSeq(q, 1, n)}
    IN  SubSeq(p, 1, CHOOSE n \in same : \A m \in same : m <= n)

\* normalize_path(path): what it raises, or the absolute path and the
\* relative path it returns
normalize_path(absolute, parts) ==
    IF absolute
    THEN IF relative_to(parts, project_dir)
         THEN [done |-> TRUE, raised |-> "", message |-> "",
               value |-> <<parts, SubSeq(parts, Len(project_dir) + 1, Len(parts))>>]
         ELSE [done |-> TRUE, raised |-> "ValueError",
               message |-> "Security error: Path is outside the project directory"]
    ELSE IF commonpath(resolve(project_dir \o parts), resolve(project_dir))
               # resolve(project_dir)
         THEN [done |-> TRUE, raised |-> "ValueError",
               message |-> "Security error: Path resolves to a location outside the project directory"]
         ELSE [done |-> TRUE, raised |-> "", message |-> "",
               value |-> <<project_dir \o parts, parts>>]

PathCalls ==
    {[fn |-> "normalize_path", absolute |-> b, parts |-> p] :
        b \in BOOLEAN,
        p \in UNION {[1..n -> {"project", "..", "a", "link", "etc"}] : n \in 0..MaxParts}}

CallNormalizePath ==
    /\ args.fn = "normalize_path"
    /\ ~returned.done
    /\ returned' = normalize_path(args.absolute, args.parts)
    /\ UNCHANGED <<args, fs>>
    /\ UNCHANGED edit_vars

\* --- save_file (file_operations.py) ---
\* The files of one call: the target (absent, or a file and its content),
\* whether the target's directory exists, the temporary file of the call, the
\* target as it was before the call, and the operations the operating system
\* refuses during the call.
Absent == <<"absent">>

Surrogate == "\\udc80"

FileSystems ==
    {[target |-> t, previous |-> t, parent |-> d, temp |-> Absent, refused |-> r] :
        t \in {Absent, <<"file", Str("old")>>},
        d \in BOOLEAN,
        r \in SUBSET {"mkdir", "create", "write", "replace", "unlink"}}
    \ {f \in [target : {<<"file", Str("old")>>}, previous : {<<"file", Str("old")>>},
              parent : {FALSE}, temp : {Absent},
              refused : SUBSET {"mkdir", "create", "write", "replace", "unlink"}] : TRUE}

\* the finally block of save_file without the removal
clean_up_never(files) == files

\* the finally block of save_file: the temporary file, when the call still
\* owns one, is removed; a refused removal is logged and nothing more
clean_up(files) ==
    IF files.temp # Absent /\ "unlink" \notin files.refused
    THEN [files EXCEPT !.temp = Absent]
    ELSE files

raised(type_name, files) ==
    [files |-> files, outcome |-> [done |-> TRUE, raised |-> type_name]]

\* save_file(abs_path, content): the files after the call and what the call
\* returned or raised
save_file(files, content) ==
    IF content.type \notin {"str", "NoneType"} THEN raised("ValueError", files)
    ELSE IF ~files.parent /\ "mkdir" \in files.refused
    THEN raised("PermissionError", files)
    ELSE IF "create" \in files.refused
    THEN raised("PermissionError", [files EXCEPT !.parent = TRUE])
    ELSE IF \E k \in 1..Len(content.text) : content.text[k] = Surrogate
    THEN raised("ValueError",
                clean_up([files EXCEPT !.parent = TRUE, !.temp = <<"file", <<>>>>]))
    ELSE IF "write" \in files.refused
    THEN raised("OSError",
                clean_up([files EXCEPT !.parent = TRUE, !.temp = <<"file", <<>>>>]))
    ELSE IF "replace" \in files.refused
    THEN raised("PermissionError",
                clean_up([files EXCEPT !.parent = TRUE,
                                       !.temp = <<"file", write_text(content.text)>>]))
    ELSE [files |-> [files EXCEPT !.parent = TRUE,
                                  !.target = <<"file", write_text(content.text)>>],
          outcome |-> [done |-> TRUE, raised |-> "", value |-> TRUE]]

SaveCalls ==
    {[fn |-> "save_file", content |-> c] :
        c \in {[type |-> "NoneType", text |-> <<>>], [type |-> "int", text |-> <<>>]}
              \cup {[type |-> "str", text |-> t] :
                       t \in {<<>>, Str("new"), Str("a\nb\n"), Str("old"), <<"a", Surrogate>>}}}

CallSaveFile ==
    /\ args.fn = "save_file"
    /\ ~returned.done
    /\ fs' = save_file(fs, args.content).files
    /\ returned' = save_file(fs, args.content).outcome
    /\ UNCHANGED args
    /\ UNCHANGED edit_vars

\* --- list_files (file_tools.py) ---
\* The directory listed: its entries other than .gitignore, each a name and
\* whether it is a directory, and its .gitignore: absent, a directory, a file
\* that cannot be read, or a file and its lines.
MaxPatterns == 2

\* GitWildMatchPattern, for patterns of the forms name, name/ and *suffix:
\* whether the pattern matches a file name, written with a final "/" when a
\* directory is meant
pattern_matches(pattern, file) ==
    LET body == IF pattern[Len(pattern)] = "/"
                THEN SubSeq(pattern, 1, Len(pattern) - 1) ELSE pattern
        name == IF file[Len(file)] = "/" THEN SubSeq(file, 1, Len(file) - 1) ELSE file
    IN  /\ pattern[Len(pattern)] = "/" => file[Len(file)] = "/"
        /\ IF body[1] = "*"
           THEN /\ Len(name) >= Len(body) - 1
                /\ SubSeq(name, Len(name) - Len(body) + 2, Len(name)) = Tail(body)
           ELSE name = body

\* PathSpec.match_file: the last pattern that matches the file decides, a
\* pattern that begins with "!" deciding that the file is not matched; empty
\* lines and comments are no patterns
RECURSIVE match_file(_, _)
match_file(patterns, file) ==
    IF patterns = <<>> THEN FALSE
    ELSE IF patterns[Len(patterns)] = <<>> \/ patterns[Len(patterns)][1] = "#"
    THEN match_file(SubSeq(patterns, 1, Len(patterns) - 1), file)
    ELSE IF patterns[Len(patterns)][1] = "!"
    THEN IF pattern_matches(Tail(patterns[Len(patterns)]), file)
         THEN FALSE
         ELSE match_file(SubSeq(patterns, 1, Len(patterns) - 1), file)
    ELSE IF pattern_matches(patterns[Len(patterns)], file)
         THEN TRUE
         ELSE match_file(SubSeq(patterns, 1, Len(patterns) - 1), file)

\* the patterns list_files filters by: the lines of .gitignore, and ".git/"
\* after them unless one of the lines is ".git/" or ".git"
gitignore_patterns(lines) ==
    IF \E n \in 1..Len(lines) : strip(lines[n]) \in {Str(".git/"), Str(".git")}
    THEN lines
    ELSE Append(lines, Str(".git/"))

\* the names list_files keeps of those of the directory
filtered_files(dir, all_files) ==
    {item \in all_files :
        /\ ~match_file(gitignore_patterns(dir.gitignore[2]), item)
        /\ ~match_file(gitignore_patterns(dir.gitignore[2]), item \o <<"/">>)
        /\ [name |-> item, is_dir |-> TRUE] \in dir.entries
           => ~\E n \in 1..Len(gitignore_patterns(dir.gitignore[2])) :
                 LET pattern == gitignore_patterns(dir.gitignore[2])[n]
                 IN  /\ pattern # <<>>
                     /\ pattern[Len(pattern)] = "/"
                     /\ SubSeq(pattern, 1, Len(pattern) - 1) = item}

\* list_files(directory, use_gitignore): what it raises, or the names it
\* returns (in the order of Path.iterdir(), which is the operating system's)
list_files(dir, directory, use_gitignore) ==
    LET all_files == {e.name : e \in dir.entries}
                     \cup (IF dir.gitignore = Absent THEN {} ELSE {Str(".gitignore")})
    IN  IF normalize_path(FALSE, directory).raised # ""
        THEN normalize_path(FALSE, directory)
        ELSE IF directory # <<>>
        THEN [done |-> TRUE, raised |-> "FileNotFoundError"]
        ELSE IF ~use_gitignore \/ dir.gitignore[1] # "file"
        THEN [done |-> TRUE, raised |-> "", value |-> all_files]
        ELSE [done |-> TRUE, raised |-> "", value |-> filtered_files(dir, all_files)]

Directories ==
    {[entries |-> e, gitignore |-> g] :
        e \in SUBSET {[name |-> Str(".git"), is_dir |-> TRUE],
                      [name |-> Str("build"), is_dir |-> TRUE],
                      [name |-> Str("a.txt"), is_dir |-> FALSE],
                      [name |-> Str("x.log"), is_dir |-> FALSE]},
        g \in {Absent, <<"directory">>, <<"unreadable">>}
              \cup {<<"file", lines>> :
                       lines \in UNION {[1..n -> {Str("*.log"), Str("build/"), Str("a.txt"),
                                                  Str(".git"), Str("!.git"), Str("# x")}]
                                           : n \in 0..MaxPatterns}}}

ListCalls ==
    {[fn |-> "list_files", directory |-> d, use_gitignore |-> u] :
        d \in {<<>>, <<"..">>, <<"missing">>}, u \in BOOLEAN}

CallListFiles ==
    /\ args.fn = "list_files"
    /\ ~returned.done
    /\ returned' = list_files(fs, args.directory, args.use_gitignore)
    /\ UNCHANGED <<args, fs>>
    /\ UNCHANGED edit_vars

CallInit ==
    /\ NoEditCall
    /\ returned = NotReturned
    /\ \/ /\ args \in FuzzyCalls \cup IndentCalls \cup NormalizeCalls \cup DiffCalls
                       \cup PathCalls
          /\ fs = NoFiles
       \/ /\ args \in SaveCalls
          /\ fs \in FileSystems
       \/ /\ args \in ListCalls
          /\ fs \in Directories

CallNext ==
    \/ CallFindFuzzyMatch
    \/ CallPreserveIndentation
    \/ CallNormalizeLineEndings
    \/ CallCreateUnifiedDiff
    \/ CallNormalizePath
    \/ CallSaveFile
    \/ CallListFiles

CallSpec == CallInit /\ [][CallNext]_vars

\* ------------------------------------------------------------------------
\* Property vocabulary of the calls
\* ------------------------------------------------------------------------

\* find_fuzzy_match has returned (or raised)
FuzzyDone == args.fn = "find_fuzzy_match" /\ returned.done

\* the averages of the windows that have a pattern line to score
WindowAverages(content, pattern) ==
    {window_confidence(content, pattern, w) : w \in
        {x \in 0..(Len(content) - Len(pattern)) :
            \E j \in 1..Len(pattern) : ~is_blank(pattern[j])}}

\* some window's average similarity is at or above the threshold
SomeWindowAtOrAbove(content, pattern, threshold) ==
    \E avg \in WindowAverages(content, pattern) : FLe(threshold, avg)

\* ------------------------------------------------------------------------
\* C11 For every threshold in [0,1], find_fuzzy_match reports matched=true
\*     only with a confidence at or above the threshold, and it reports
\*     matched=true whenever the best window's average similarity is at or
\*     above the threshold.
\*     (Violated: the partial-line shortcut reports 0.81 whatever the
\*     threshold is, and a one-line pattern contained in a content line makes
\*     the shortcut raise IndexError instead of reporting a match.)
\* ------------------------------------------------------------------------
C11_MatchedIffAtThreshold ==
    FuzzyDone =>
        /\ returned.value.matched => FLe(args.threshold, returned.value.confidence)
        /\ SomeWindowAtOrAbove(args.content_lines, args.pattern_lines, args.threshold)
              => returned.value.matched

\* ------------------------------------------------------------------------
\* C12 Every match outcome carries a confidence within [0,1], for every
\*     threshold in [0,1], also after the equal-to-threshold nudge.
\*     (Violated: a window of similarity 1.0 under threshold 1.0 is reported
\*     with confidence 1.01.)
\* ------------------------------------------------------------------------
C12_ConfidenceInUnitInterval ==
    FuzzyDone =>
        /\ FLe(Zero, returned.value.confidence)
        /\ FLe(returned.value.confidence, One)

\* preserve_indentation has returned
IndentDone == args.fn = "preserve_indentation" /\ returned.done

\* the number of leading whitespace characters of a line
LeadingWidth(line) ==
    CHOOSE n \in 0..Len(line) :
        /\ \A k \in 1..n : line[k] \in Whitespace
        /\ n = Len(line) \/ line[n + 1] \notin Whitespace

\* a line's leading whitespace, and the line without it
Leading(line) == SubSeq(line, 1, LeadingWidth(line))
Unindented(line) == SubSeq(line, LeadingWidth(line) + 1, Len(line))

\* blank or whitespace-only
Blank(line) == \A k \in 1..Len(line) : line[k] \in Whitespace

\* the strategy preserve_indentation selects for a call
Strategy(old_text, new_text) ==
    IF is_markdown_bullets(old_text, new_text) THEN "list-item"
    ELSE IF has_python_pattern(old_text) /\ has_python_pattern(new_text) THEN "block"
    ELSE "generic"

\* ------------------------------------------------------------------------
\* C13 In all three strategies a non-blank first line of new_text is emitted
\*     as the leading whitespace of old_text's first line followed by the new
\*     line without its own leading whitespace.
\* ------------------------------------------------------------------------
C13_FirstLineTakesBaseIndent ==
    (IndentDone /\ ~Blank(split_lines(args.new_text)[1])) =>
        split_lines(returned.value)[1]
            = Leading(split_lines(args.old_text)[1]) \o Unindented(split_lines(args.new_text)[1])

\* an indented old_text and a differently indented first line, in the
\* list-item strategy (the witnesses of the other two strategies follow)
C13_Witness ==
    /\ IndentDone
    /\ Strategy(args.old_text, args.new_text) = "list-item"
    /\ ~Blank(split_lines(args.new_text)[1])
    /\ Leading(split_lines(args.old_text)[1]) # <<>>
    /\ Leading(split_lines(args.new_text)[1]) # Leading(split_lines(args.old_text)[1])

C13_WitnessBlock ==
    /\ IndentDone
    /\ Strategy(args.old_text, args.new_text) = "block"
    /\ ~Blank(split_lines(args.new_text)[1])
    /\ Leading(split_lines(args.old_text)[1]) # <<>>
    /\ Leading(split_lines(args.new_text)[1]) # Leading(split_lines(args.old_text)[1])

C13_WitnessGeneric ==
    /\ IndentDone
    /\ Strategy(args.old_text, args.new_text) = "generic"
    /\ ~Blank(split_lines(args.new_text)[1])
    /\ Leading(split_lines(args.old_text)[1]) # <<>>
    /\ Leading(split_lines(args.new_text)[1]) # Leading(split_lines(args.old_text)[1])

\* ------------------------------------------------------------------------
\* C14 In every indentation strategy each blank or whitespace-only line of
\*     new_text is emitted as the empty string, so the result has no
\*     whitespace-only line.
\*     (Violated: the list-item strategy emits a blank line as the base
\*     indentation, or as the indentation of the old line at that index.)
\* ------------------------------------------------------------------------
C14_BlankLinesEmittedEmpty ==
    IndentDone =>
        /\ Len(split_lines(returned.value)) = Len(split_lines(args.new_text))
        /\ \A k \in 1..Len(split_lines(args.new_text)) :
              Blank(split_lines(args.new_text)[k]) => split_lines(returned.value)[k] = <<>>
        /\ \A k \in 1..Len(split_lines(returned.value)) :
              Blank(split_lines(returned.value)[k]) => split_lines(returned.value)[k] = <<>>

\* the same statement for the block-structured and the generic strategy
\* only, where it holds
C14_BlankLinesOutsideLists ==
    (IndentDone /\ Strategy(args.old_text, args.new_text) # "list-item") =>
        \A k \in 1..Len(split_lines(args.new_text)) :
            Blank(split_lines(args.new_text)[k]) => split_lines(returned.value)[k] = <<>>

\* ------------------------------------------------------------------------
\* C15 Whitespace normalization never reaches the document: with
\*     preserve_indentation disabled, every applied edit (exact or fuzzy)
\*     inserts new_text, line endings normalized, verbatim, and all text
\*     outside the replaced span is kept exactly, whatever normalize_whitespace
\*     is set to.
\* ------------------------------------------------------------------------

\* the lines after are the lines before with one run of lines replaced by
\* the lines of text
OneRunReplaced(before, after, text) ==
    \E a \in 0..Len(before) : \E b \in a..Len(before) :
        after = SubSeq(before, 1, a) \o text \o SubSeq(before, b + 1, Len(before))

C15_NewTextInsertedVerbatim ==
    \A k \in Steps :
        (history[k].kind \in {"exact", "fuzzy"} /\ ~options.preserve_indentation) =>
            /\ history[k].new = normalize_line_endings(edits[k].new_text)
            /\ history[k].kind = "exact" =>
                  history[k].after
                      = Replaced(history[k].before,
                                 FirstOccurrence(history[k].before, history[k].old),
                                 Len(history[k].old), history[k].new)
            /\ history[k].kind = "fuzzy" =>
                  OneRunReplaced(split_lines(history[k].before),
                                 split_lines(history[k].after),
                                 split_lines(history[k].new))

\* a fuzzy edit whose window differs from the pattern in whitespace and whose
\* new text has indentation of its own, with normalize_whitespace on
C15_Witness ==
    \E k \in Steps :
        /\ history[k].kind = "fuzzy"
        /\ ~options.preserve_indentation
        /\ options.normalize_whitespace
        /\ normalize_whitespace(history[k].new) # history[k].new
        /\ history[k].after # history[k].before
        /\ Occurs(history[k].after, history[k].new)

\* the same with normalize_whitespace off, for an exact edit next to an
\* indented line
C15_WitnessExact ==
    \E k \in Steps :
        /\ history[k].kind = "exact"
        /\ ~options.preserve_indentation
        /\ ~options.normalize_whitespace
        /\ normalize_whitespace(history[k].new) # history[k].new
        /\ normalize_whitespace(history[k].before) # history[k].before
        /\ history[k].after # history[k].before

\* ------------------------------------------------------------------------
\* C16 For every input text the result of normalize_line_endings contains no
\*     "\r\n", hence normalizing a second time changes nothing.
\*     (Violated: the "\r\n" of "\r\r\n" is replaced and the "\r" before it
\*     then stands in front of the "\n" that is left.)
\* ------------------------------------------------------------------------
C16_NormalizedHasNoCrlf ==
    (args.fn = "normalize_line_endings" /\ returned.done) =>
        /\ ~Occurs(returned.value, <<CR, NL>>)
        /\ normalize_line_endings(returned.value) = returned.value

\* ------------------------------------------------------------------------
\* C17 create_unified_diff works at line level: when original and modified
\*     are equal the diff is empty; when they differ the diff carries the
\*     headers '--- a/<path>' and '+++ b/<path>', a '-' line for every
\*     original line that is replaced or removed and a '+' line for every
\*     line that is added.
\* ------------------------------------------------------------------------

DiffDone == args.fn = "create_unified_diff" /\ returned.done

\* the texts of the diff lines that carry one of the prefixes, in order
RECURSIVE Side(_, _)
Side(diff_lines, prefixes) ==
    IF diff_lines = <<>> THEN <<>>
    ELSE (IF diff_lines[1][1] \in prefixes THEN <<diff_lines[1][2]>> ELSE <<>>)
         \o Side(Tail(diff_lines), prefixes)

\* the two texts are a common head, the old side (respectively the new side)
\* of the hunk, and a common tail
Patches(hunk, old_lines, new_lines) ==
    \E head \in 0..Len(old_lines) : \E tail \in 0..(Len(old_lines) - head) :
        /\ head + tail <= Len(new_lines)
        /\ SubSeq(old_lines, 1, head) = SubSeq(new_lines, 1, head)
        /\ SubSeq(old_lines, Len(old_lines) - tail + 1, Len(old_lines))
               = SubSeq(new_lines, Len(new_lines) - tail + 1, Len(new_lines))
        /\ Side(hunk, {" ", "-"}) = SubSeq(old_lines, head + 1, Len(old_lines) - tail)
        /\ Side(hunk, {" ", "+"}) = SubSeq(new_lines, head + 1, Len(new_lines) - tail)

C17_DiffIsLineLevelPatch ==
    DiffDone =>
        /\ args.original = args.modified => returned.value = <<>>
        /\ args.original # args.modified =>
              /\ Len(returned.value) >= 4
              /\ returned.value[1] = <<"--- a/", args.file_path>>
              /\ returned.value[2] = <<"+++ b/", args.file_path>>
              /\ returned.value[3][1] = "@@"
              /\ \A n \in 4..Len(returned.value) : returned.value[n][1] \in {" ", "-", "+"}
              /\ \E n \in 4..Len(returned.value) : returned.value[n][1] \in {"-", "+"}
              /\ Patches(SubSeq(returned.value, 4, Len(returned.value)),
                         splitlines_keepends(args.original),
                         splitlines_keepends(args.modified))

\* a line replaced next to a line that stays
C17_Witness ==
    /\ DiffDone
    /\ \E n \in 4..Len(returned.value) : returned.value[n][1] = "-"
    /\ \E n \in 4..Len(returned.value) : returned.value[n][1] = "+"
    /\ \E n \in 4..Len(returned.value) : returned.value[n][1] = " "
    /\ Len(splitlines_keepends(args.original)) = Len(splitlines_keepends(args.modified))

\* ------------------------------------------------------------------------
\* C18 The server's edit_file tool, given the absolute path of an existing
\*     file and an edit whose old text occurs in that file, returns
\*     success=true with a diff containing the added line, and afterwards the
\*     file contains the new text and no longer the old text.
\*     (Violated: the tool hands a Path object to edit_file, which accepts a
\*     str only and raises ValueError; the file is left as it was.)
\* ------------------------------------------------------------------------
C18_ToolEditsTheFile ==
    (/\ args.fn = "server.edit_file"
     /\ returned.done
     /\ args.abs_file_path = AbsFilePath
     /\ Len(args.edits) = 1
     /\ ~args.dry_run
     /\ Occurs(read_text(file_before), normalize_line_endings(args.edits[1].old_text))
     /\ ~Occurs(normalize_line_endings(args.edits[1].new_text),
                normalize_line_endings(args.edits[1].old_text)))
    => /\ returned.raised = ""
       /\ result.returned
       /\ result.success = TRUE
       /\ \E n \in 1..Len(result.diff) : result.diff[n][1] = "+"
       /\ Occurs(read_text(disk), normalize_line_endings(args.edits[1].new_text))

\* ------------------------------------------------------------------------
\* C19 For every user-supplied path, relative or absolute, normalize_path
\*     either raises ValueError with a 'Security error' message or returns an
\*     absolute path whose resolved location lies inside the project
\*     directory.
\*     (Violated: an absolute path is compared with the project directory as
\*     written, without resolving ".." or symbolic links.)
\* ------------------------------------------------------------------------
PathDone == args.fn = "normalize_path" /\ returned.done

SecurityError(outcome) ==
    /\ outcome.raised = "ValueError"
    /\ SubSeq(Str(outcome.message), 1, 15) = Str("Security error:")

InsideProject(parts) == relative_to(resolve(parts), resolve(project_dir))

C19_NoReturnedPathEscapes ==
    PathDone =>
        \/ SecurityError(returned)
        \/ returned.raised = "" /\ InsideProject(returned.value[1])

\* the same for relative paths only, which the code does resolve
C19_RelativePathsConfined ==
    (PathDone /\ ~args.absolute) =>
        \/ SecurityError(returned)
        \/ returned.raised = "" /\ InsideProject(returned.value[1])

\* ------------------------------------------------------------------------
\* C20 save_file is all-or-nothing: when it finishes, either it returned True
\*     and the target holds exactly the new content, or it raised and the
\*     target holds exactly its previous content (or is still absent); no
\*     temporary file of the call remains in the target's directory, unless
\*     the operating system refused its removal.
\* ------------------------------------------------------------------------
SaveDone == args.fn = "save_file" /\ returned.done

AllOrNothing ==
    \/ /\ returned.raised = ""
       /\ returned.value = TRUE
       /\ fs.target = <<"file", args.content.text>>
    \/ /\ returned.raised # ""
       /\ fs.target = fs.previous

C20_SaveIsAllOrNothing ==
    SaveDone =>
        /\ AllOrNothing
        /\ fs.temp = Absent \/ (returned.raised # "" /\ "unlink" \in fs.refused)

\* the statement without the exception: violated when the rename and then the
\* removal of the temporary file are both refused
C20_NoTempFileRemains ==
    SaveDone => (AllOrNothing /\ fs.temp = Absent)

\* a call whose rename was refused over an existing target: it raised, the
\* target is as it was and the temporary file it had written is removed
C20_Witness ==
    /\ SaveDone
    /\ returned.raised = "PermissionError"
    /\ fs.refused = {"replace"}
    /\ fs.parent
    /\ fs.target = <<"file", Str("old")>>
    /\ fs.temp = Absent

\* a call that replaced an existing target by the new content
C20_WitnessSaved ==
    /\ SaveDone
    /\ returned.raised = ""
    /\ fs.previous = <<"file", Str("old")>>
    /\ fs.target = <<"file", Str("a\nb\n")>>
    /\ fs.temp = Absent

\* ------------------------------------------------------------------------
\* C21 Whenever list_files is called with ignore-pattern filtering enabled,
\*     the returned listing never contains the '.git' entry and contains no
\*     entry matched by the directory's .gitignore patterns; with filtering
\*     disabled every directory entry is returned.
\*     (Violated: a directory without a readable .gitignore file is listed
\*     whole, '.git' included.)
\* ------------------------------------------------------------------------
ListDone == args.fn = "list_files" /\ returned.done /\ returned.raised = ""

Names == {e.name : e \in fs.entries}
             \cup (IF fs.gitignore = Absent THEN {} ELSE {Str(".gitignore")})

\* an entry the lines of the directory's .gitignore ignore
Ignored(name) ==
    /\ fs.gitignore[1] = "file"
    /\ match_file(fs.gitignore[2],
                  IF [name |-> name, is_dir |-> TRUE] \in fs.entries
                  THEN name \o <<"/">> ELSE name)

C21_ListingHonoursIgnores ==
    ListDone =>
        IF args.use_gitignore
        THEN /\ Str(".git") \notin returned.value
             /\ \A name \in returned.value : ~Ignored(name)
        ELSE returned.value = Names

\* the parts of the statement that hold: nothing the .gitignore ignores is
\* listed, and without filtering everything is
C21_IgnoredEntriesNotListed ==
    ListDone =>
        IF args.use_gitignore
        THEN \A name \in returned.value : ~Ignored(name)
        ELSE returned.value = Names

\* '.git' is listed under filtering only without a readable .gitignore file or
\* when the .gitignore names .git and takes it back with "!.git"
C21_GitListedOnlyWithoutGitignore ==
    (ListDone /\ args.use_gitignore /\ Str(".git") \in returned.value) =>
        \/ fs.gitignore[1] # "file"
        \/ \E n \in 1..Len(fs.gitignore[2]) : fs.gitignore[2][n] = Str("!.git")

\* ------------------------------------------------------------------------
\* C22 For every fuzzy-matched edit of a batch, whatever edits precede it,
\*     the lines removed from the document are exactly the window the fuzzy
\*     matcher selected in the current document, every line outside that
\*     window is unchanged, and the document's line count changes by exactly
\*     (replacement line count - matched line count).
\*     (Violated: line_offset, the line-count change of the earlier fuzzy
\*     edits, is added to an index found in the current document.)
\* ------------------------------------------------------------------------

\* the lines after are the lines before with the window of count lines at
\* index replaced by as many lines as text has
WindowReplaced(before, after, index, count, text) ==
    /\ Len(after) = Len(before) - count + Len(text)
    /\ SubSeq(after, 1, index) = SubSeq(before, 1, index)
    /\ SubSeq(after, index + Len(text) + 1, Len(after))
           = SubSeq(before, index + count + 1, Len(before))

C22_FuzzyReplacesSelectedWindow ==
    \A k \in Steps :
        history[k].kind = "fuzzy" =>
            WindowReplaced(split_lines(history[k].before), split_lines(history[k].after),
                           history[k].fuzzy.line_index, history[k].fuzzy.line_count,
                           split_lines(history[k].new))

\* the same for the fuzzy edits that no line-count-changing fuzzy edit
\* precedes
C22_FirstFuzzyReplacesSelectedWindow ==
    \A k \in Steps :
        (history[k].kind = "fuzzy"
         /\ \A j \in 1..(k - 1) :
               history[j].kind = "fuzzy" =>
                   Len(split_lines(history[j].after)) = Len(split_lines(history[j].before))) =>
            WindowReplaced(split_lines(history[k].before), split_lines(history[k].after),
                           history[k].fuzzy.line_index, history[k].fuzzy.line_count,
                           split_lines(history[k].new))

\* ------------------------------------------------------------------------
\* C23 When the fast path does not fire and a fuzzy match is accepted, the
\*     line_index reported by find_fuzzy_match is the leftmost window
\*     position whose average similarity is maximal over all window positions
\*     0 .. len(content) - len(pattern), the average being taken over the
\*     non-blank pattern lines only.
\*     (Violated: under threshold 0 a match is accepted when no window scored
\*     above 0, and line_index is then -1.)
\* ------------------------------------------------------------------------

\* find_fuzzy_match returned a match found by the scan of the windows
ScanAccepted ==
    /\ FuzzyDone
    /\ returned.value.raised = ""
    /\ returned.value.matched
    /\ fast_path(args.content_lines, args.pattern_lines, 0)[1] = "none"

\* position w is the leftmost of the windows of maximal average similarity
LeftmostBest(content, pattern, w) ==
    /\ w \in 0..(Len(content) - Len(pattern))
    /\ \A v \in 0..(Len(content) - Len(pattern)) :
          /\ FLe(window_confidence(content, pattern, v), window_confidence(content, pattern, w))
          /\ v < w => FLt(window_confidence(content, pattern, v),
                          window_confidence(content, pattern, w))

C23_LeftmostBestWindow ==
    ScanAccepted =>
        LeftmostBest(args.content_lines, args.pattern_lines, returned.value.line_index)

\* the same under the thresholds above 0
C23_LeftmostBestWindowAboveZero ==
    (ScanAccepted /\ FLt(Zero, args.threshold)) =>
        LeftmostBest(args.content_lines, args.pattern_lines, returned.value.line_index)

\* under a threshold above 0, three windows of the same average: the first is
\* reported
C23_WitnessTie ==
    /\ ScanAccepted
    /\ FLt(Zero, args.threshold)
    /\ returned.value.line_index = 0
    /\ Len(args.content_lines) - Len(args.pattern_lines) = 2
    /\ FEq(window_confidence(args.content_lines, args.pattern_lines, 0),
           window_confidence(args.content_lines, args.pattern_lines, 2))

\* ------------------------------------------------------------------------
\* C24 For every pattern of at least two lines: if some document line i, with
\*     the whole pattern fitting into the document from line i on, contains
\*     the pattern's first line and document line i+1 equals the pattern's
\*     second line, find_fuzzy_match returns matched=true with confidence
\*     0.81 and line_index equal to the smallest such i, whatever window the
\*     general scan would have selected.
\* ------------------------------------------------------------------------

\* the positions up to last where the first pattern line is contained in the
\* content line and the second pattern line equals the next content line
PartialHits(content, pattern, last) ==
    {i \in 0..last : /\ i + 2 <= Len(content)
                     /\ str_in(pattern[1], content[i + 1])
                     /\ pattern[2] = content[i + 2]}

FastPathReported(hits) ==
    /\ returned.value.raised = ""
    /\ returned.value.matched
    /\ FEq(returned.value.confidence, FastPathConfidence)
    /\ returned.value.line_index = Min(hits)
    /\ returned.value.line_count = Len(args.pattern_lines)

FuzzyReturned == FuzzyDone /\ returned.value.raised = ""

WindowInside ==
    /\ 0 <= returned.value.line_index
    /\ returned.value.line_index + returned.value.line_count <= Len(args.content_lines)

C27_MatchedWindowInsideDocument ==
    FuzzyReturned =>
        IF returned.value.matched THEN WindowInside ELSE returned.value.line_index = -1

\* the same under the thresholds above 0
C27_MatchedWindowInsideAboveZero ==
    (FuzzyReturned /\ FLt(Zero, args.threshold)) =>
        IF returned.value.matched THEN WindowInside ELSE returned.value.line_index = -1

\* ------------------------------------------------------------------------
\* C28 find_fuzzy_match is total: for every list of content lines and every
\*     pattern of one or more lines, single-line patterns included, it
\*     returns a MatchResult without raising.
\*     (Violated: a single-line pattern contained in a content line makes the
\*     first loop read pattern_lines[1], which raises IndexError.)
\* ------------------------------------------------------------------------
C28_FuzzyMatchNeverRaises ==
    (FuzzyDone /\ Len(args.pattern_lines) >= 1) => returned.value.raised = ""

\* the same for the patterns of two or more lines
C28_LongerPatternsNeverRaise ==
    (FuzzyDone /\ Len(args.pattern_lines) >= 2) => returned.value.raised = ""

\* ------------------------------------------------------------------------
\* C25 Whenever the Indentation Preserver synthesizes indentation deeper than
\*     its reference (block strategy: a new line whose depth exceeds every
\*     depth seen in old_text; generic strategy: a line beyond old_text's
\*     lines that is indented more than the previous new line), the emitted
\*     indentation is the reference indentation (deepest known indent, resp.
\*     previously emitted indent) extended by exactly one detected indent
\*     unit per extra depth level.
\*     (Violated: the unit of n spaces is repeated n times per level.)
\* ------------------------------------------------------------------------

\* the depths of the non-blank lines of a text
Depths(text) == analyze_indentation_structure(split_lines(text))

DeepestDepth(text) == Max({Depths(text)[k] : k \in DOMAIN Depths(text)})

\* generic strategy: a line beyond those of old, indented more than the
\* line before it, is emitted one step deeper than the line emitted before it
GenericStepsBy(old, new, out, step) ==
    \A k \in 2..Len(new) :
        (/\ k > Len(old)
         /\ ~Blank(new[k]) /\ ~Blank(new[k - 1])
         /\ LeadingWidth(new[k]) > LeadingWidth(new[k - 1])) =>
            Leading(out[k]) = Leading(out[k - 1]) \o step

\* block strategy: a line deeper than every line of old_text is emitted at
\* the indentation of the deepest line of old_text and one step per extra depth
BlockStepsBy(old_text, new_text, out, step) ==
    \A k \in 2..Len(split_lines(new_text)) :
        (/\ ~Blank(split_lines(new_text)[k])
         /\ Depths(new_text)[k] > DeepestDepth(old_text)) =>
            Leading(out[k])
                = python_indent_map(old_text)[DeepestDepth(old_text)]
                      \o str_repeat(step, Depths(new_text)[k] - DeepestDepth(old_text))

SynthesizedStepsBy(step) ==
    /\ Strategy(args.old_text, args.new_text) = "generic" =>
          GenericStepsBy(split_lines(args.old_text), split_lines(args.new_text),
                         split_lines(returned.value), step)
    /\ Strategy(args.old_text, args.new_text) = "block" =>
          BlockStepsBy(args.old_text, args.new_text, split_lines(returned.value), step)

C25_SynthesizedIndentStepsByOneUnit ==
    IndentDone => SynthesizedStepsBy(detect_indentation(args.old_text)[1])

\* what holds: the step is the detected unit repeated as many times as it is
\* wide, which is one unit for a tab only
C25_SynthesizedIndentStepsBySquare ==
    IndentDone =>
        SynthesizedStepsBy(str_repeat(detect_indentation(args.old_text)[1],
                                      detect_indentation(args.old_text)[2]))

\* ------------------------------------------------------------------------
\* C26 preserve_indentation selects its strategy by a fixed priority: the
\*     list-item strategy whenever both old_text and new_text contain a line
\*     that starts, after leading whitespace, with '- ' (even if both also
\*     contain block keywords); otherwise the block-structured strategy when
\*     both texts contain at least one block-introducing token; otherwise the
\*     generic strategy.
\* ------------------------------------------------------------------------

\* a line of the text starts, after its leading whitespace, with "- "
HasListItem(text) ==
    \E k \in 1..Len(split_lines(text)) :
        /\ Len(Unindented(split_lines(text)[k])) >= 2
        /\ SubSeq(Unindented(split_lines(text)[k]), 1, 2) = Str("- ")

\* the text contains one of the block-introducing tokens
HasBlockToken(text) ==
    \E token \in {"class ", "def ", "if ", "else:", "elif ", "try:", "except", "for ",
                  "while "} : Occurs(text, Str(token))

ListItemResult(old_text, new_text) ==
    preserve_markdown_indentation(split_lines(old_text), split_lines(new_text),
                                  Leading(split_lines(old_text)[1]))

C26_WitnessBlock ==
    /\ IndentDone
    /\ ~HasListItem(args.old_text) /\ HasListItem(args.new_text)
    /\ HasBlockToken(args.old_text) /\ HasBlockToken(args.new_text)
    /\ returned.value = preserve_python_indentation(args.old_text, args.new_text)
    /\ returned.value # preserve_generic_indentation(args.old_text, args.new_text)

\* ------------------------------------------------------------------------
\* C29 preserve_indentation only rewrites leading whitespace: for every
\*     old_text and new_text and whichever strategy is selected, the result
\*     has exactly as many lines as new_text and each result line, stripped
\*     of leading whitespace, equals the corresponding new_text line stripped
\*     of leading whitespace.
\* ------------------------------------------------------------------------
C29_OnlyLeadingWhitespaceRewritten ==
    IndentDone =>
        /\ Len(split_lines(returned.value)) = Len(split_lines(args.new_text))
        /\ \A k \in 1..Len(split_lines(args.new_text)) :
              Unindented(split_lines(returned.value)[k])
                  = Unindented(split_lines(args.new_text)[k])

\* a list with a blank line between its items, re-indented
C29_Witness ==
    /\ IndentDone
    /\ Strategy(args.old_text, args.new_text) = "list-item"
    /\ \E k \in 1..Len(split_lines(args.new_text)) : Blank(split_lines(args.new_text)[k])
    /\ returned.value # args.new_text

\* the same in the block strategy and in the generic strategy
C29_WitnessBlock ==
    /\ IndentDone
    /\ Strategy(args.old_text, args.new_text) = "block"
    /\ Len(split_lines(args.new_text)) >= 3
    /\ returned.value # args.new_text

C29_WitnessGeneric ==
    /\ IndentDone
    /\ Strategy(args.old_text, args.new_text) = "generic"
    /\ Len(split_lines(args.new_text)) >= 3
    /\ returned.value # args.new_text

\* ------------------------------------------------------------------------
\* C30 The block-structured strategy preserves the relative nesting order of
\*     new_text: for any two non-blank lines A and B of new_text after the
\*     first, if A's original indentation is no wider than B's, then the
\*     indentation emitted for A is no wider than the indentation emitted for
\*     B (including lines dedented below new_text's first line and depths
\*     absent from old_text).
\*     (Violated: a line of a depth below every depth of old_text is emitted
\*     at the indentation of old_text's deepest line.)
\* ------------------------------------------------------------------------

\* lines a and b of new, a indented no wider than b, come out in that order
NestingKept(new, out, a, b) ==
    (/\ ~Blank(new[a]) /\ ~Blank(new[b])
     /\ LeadingWidth(new[a]) <= LeadingWidth(new[b])) =>
        LeadingWidth(out[a]) <= LeadingWidth(out[b])

C30_BlockKeepsNestingOrder ==
    (IndentDone /\ Strategy(args.old_text, args.new_text) = "block") =>
        \A a, b \in 2..Len(split_lines(args.new_text)) :
            NestingKept(split_lines(args.new_text), split_lines(returned.value), a, b)

\* the same for the lines that are not dedented below new_text's first line
C30_BlockKeepsNestingOrderFromFirstLine ==
    (IndentDone /\ Strategy(args.old_text, args.new_text) = "block") =>
        \A a, b \in {k \in 2..Len(split_lines(args.new_text)) :
                        LeadingWidth(split_lines(args.new_text)[k])
                            >= LeadingWidth(split_lines(args.new_text)[1])} :
            NestingKept(split_lines(args.new_text), split_lines(returned.value), a, b)

====
